---------------------------- MODULE Spec2Model ----------------------------
(***************************************************************************)
(* Model of slippi-situation-parser: the state classifier (states.rs),     *)
(* the frame cursor ActionBuilder and the action segmenter parse           *)
(* (parser.rs), and the interaction aligner generate_interactions (lib.rs).*)
(*                                                                         *)
(* Conventions.  Option<T> is a record: None, or Some(v) with field val.   *)
(* A MeleeState is its raw id (the enum's repr(u16) discriminant).  f32    *)
(* velocities are integers in tenths, so EPSILON = 0.1 is 1.  A            *)
(* HighLevelAction is a record with a tag and, for the variants that carry *)
(* an attack, the field at.                                                *)
(***************************************************************************)
EXTENDS Integers, Sequences, FiniteSets, TLC

VARIABLES
    consumer,       \* parse: the ActionBuilder {frames, cur_frame, action_init_data}
    actions,        \* parse: the Vec<Action> being built
    pc,             \* parse: position in parse / parse_next
    ret,            \* cursor operations: the value the last operation returned
    player_actions, \* generate_interactions: remaining player slice (indices into gi_input.player)
    opponent_actions, \* generate_interactions: remaining opponent slice
    initiation,     \* generate_interactions: index of the current initiation
    response,       \* generate_interactions: index of the current response
    interactions,   \* generate_interactions: the Vec<InteractionRef>
    gi_input,       \* generate_interactions: the two argument slices
    gi_pc           \* generate_interactions: position in the function

vars == <<consumer, actions, pc, ret, player_actions, opponent_actions,
          initiation, response, interactions, gi_input, gi_pc>>

parse_vars == <<consumer, actions, pc, ret>>
gi_vars == <<player_actions, opponent_actions, initiation, response,
             interactions, gi_input, gi_pc>>

None == [some |-> FALSE]
Some(v) == [some |-> TRUE, val |-> v]

\* a panic (expect, unwrap, todo!, unreachable!) carrying its message
Panic(msg) == [some |-> FALSE, panic |-> msg]
IsPanic(v) == "panic" \in DOMAIN v

\* ------------------------------------------------------------------------
\* states.rs: the raw states named by the parser and the classifier
\* ------------------------------------------------------------------------
DeadDown == 0
Wait == 14
WalkSlow == 15
TurnRun == 19
Dash == 20
Run == 21
RunDirect == 22
RunBrake == 23
KneeBend == 24
JumpAerialF == 27
Fall == 29
Squat == 39
LandingFallSpecial == 43
Attack11 == 44
AttackDash == 50
AttackAirN == 65
AttackAirLw == 69
DamageHi1 == 75
Guard == 179
Passive == 199
Catch == 212
EscapeF == 233
EscapeB == 234
Escape == 235
EscapeAir == 236
CliffCatch == 252
CliffWait == 253
CliffClimbSlow == 254
CliffJumpQuick2 == 263
BarrelCannonWait == 340

\* MeleeState::broad_state, the LOOKUP table (index = raw id + 1)
LOOKUP == <<
    "GenericInactionable", "GenericInactionable", "GenericInactionable", "GenericInactionable", "GenericInactionable", "GenericInactionable",
    "GenericInactionable", "GenericInactionable", "GenericInactionable", "GenericInactionable", "GenericInactionable", "GenericInactionable",
    "GenericInactionable", "Air", "Ground", "Walk", "Walk", "Walk",
    "Ground", "DashRun", "DashRun", "DashRun", "DashRun", "DashRun",
    "JumpSquat", "Air", "Air", "AirJump", "AirJump", "Air",
    "Air", "Air", "Air", "Air", "Air", "GenericInactionable",
    "GenericInactionable", "GenericInactionable", "Air", "Crouch", "Crouch", "Ground",
    "GenericInactionable", "SpecialLanding", "Attack", "Attack", "Attack", "Attack",
    "Attack", "Attack", "Attack", "Attack", "Attack", "Attack",
    "Attack", "Attack", "Attack", "Attack", "Attack", "Attack",
    "Attack", "Attack", "Attack", "Attack", "Attack", "Attack",
    "Attack", "Attack", "Attack", "Attack", "GenericInactionable", "GenericInactionable",
    "GenericInactionable", "GenericInactionable", "GenericInactionable", "Hitstun", "Hitstun", "Hitstun",
    "Hitstun", "Hitstun", "Hitstun", "Hitstun", "Hitstun", "Hitstun",
    "Hitstun", "Hitstun", "Hitstun", "Hitstun", "Hitstun", "Hitstun",
    "Hitstun", "Hitstun", "GenericInactionable", "GenericInactionable", "GenericInactionable", "GenericInactionable",
    "GenericInactionable", "GenericInactionable", "GenericInactionable", "GenericInactionable", "GenericInactionable", "GenericInactionable",
    "GenericInactionable", "GenericInactionable", "GenericInactionable", "GenericInactionable", "GenericInactionable", "GenericInactionable",
    "GenericInactionable", "GenericInactionable", "GenericInactionable", "GenericInactionable", "GenericInactionable", "GenericInactionable",
    "GenericInactionable", "GenericInactionable", "GenericInactionable", "GenericInactionable", "GenericInactionable", "GenericInactionable",
    "GenericInactionable", "GenericInactionable", "GenericInactionable", "GenericInactionable", "GenericInactionable", "GenericInactionable",
    "GenericInactionable", "GenericInactionable", "GenericInactionable", "GenericInactionable", "GenericInactionable", "GenericInactionable",
    "GenericInactionable", "GenericInactionable", "GenericInactionable", "GenericInactionable", "GenericInactionable", "GenericInactionable",
    "GenericInactionable", "GenericInactionable", "GenericInactionable", "GenericInactionable", "GenericInactionable", "GenericInactionable",
    "GenericInactionable", "GenericInactionable", "GenericInactionable", "GenericInactionable", "GenericInactionable", "GenericInactionable",
    "GenericInactionable", "GenericInactionable", "GenericInactionable", "GenericInactionable", "GenericInactionable", "GenericInactionable",
    "GenericInactionable", "GenericInactionable", "GenericInactionable", "GenericInactionable", "GenericInactionable", "GenericInactionable",
    "GenericInactionable", "GenericInactionable", "GenericInactionable", "GenericInactionable", "GenericInactionable", "GenericInactionable",
    "GenericInactionable", "GenericInactionable", "GenericInactionable", "GenericInactionable", "GenericInactionable", "GenericInactionable",
    "GenericInactionable", "GenericInactionable", "GenericInactionable", "GenericInactionable", "Shield", "Shield",
    "GenericInactionable", "Shield", "Shield", "GenericInactionable", "GenericInactionable", "GenericInactionable",
    "GenericInactionable", "GenericInactionable", "GenericInactionable", "GenericInactionable", "GenericInactionable", "GenericInactionable",
    "GenericInactionable", "GenericInactionable", "GenericInactionable", "GenericInactionable", "GenericInactionable", "GenericInactionable",
    "GenericInactionable", "GenericInactionable", "GenericInactionable", "GenericInactionable", "GenericInactionable", "GenericInactionable",
    "GenericInactionable", "GenericInactionable", "GenericInactionable", "GenericInactionable", "GenericInactionable", "GenericInactionable",
    "GenericInactionable", "GenericInactionable", "Grab", "Grab", "Grab", "Grab",
    "Grab", "Grab", "Grab", "Grab", "Grab", "Grab",
    "Grab", "Hitstun", "Hitstun", "Hitstun", "Hitstun", "Hitstun",
    "Hitstun", "Hitstun", "Hitstun", "Hitstun", "Hitstun", "Roll",
    "Roll", "Spotdodge", "Airdodge", "GenericInactionable", "GenericInactionable", "Hitstun",
    "Hitstun", "Hitstun", "Hitstun", "Hitstun", "Air", "Ground",
    "Ground", "GenericInactionable", "GenericInactionable", "GenericInactionable", "GenericInactionable", "Air",
    "Ledge", "Ledge", "LedgeAction", "LedgeAction", "LedgeAction", "LedgeAction",
    "LedgeAction", "LedgeAction", "LedgeAction", "LedgeAction", "LedgeAction", "LedgeAction",
    "GenericInactionable", "GenericInactionable", "Hitstun", "Hitstun", "Hitstun", "Hitstun",
    "Hitstun", "Hitstun", "Hitstun", "Hitstun", "Hitstun", "GenericInactionable",
    "GenericInactionable", "GenericInactionable", "GenericInactionable", "GenericInactionable", "GenericInactionable", "GenericInactionable",
    "GenericInactionable", "GenericInactionable", "GenericInactionable", "GenericInactionable", "GenericInactionable", "GenericInactionable",
    "GenericInactionable", "GenericInactionable", "GenericInactionable", "GenericInactionable", "GenericInactionable", "GenericInactionable",
    "GenericInactionable", "GenericInactionable", "GenericInactionable", "GenericInactionable", "GenericInactionable", "GenericInactionable",
    "GenericInactionable", "GenericInactionable", "GenericInactionable", "GenericInactionable", "GenericInactionable", "GenericInactionable",
    "GenericInactionable", "GenericInactionable", "GenericInactionable", "GenericInactionable", "GenericInactionable", "GenericInactionable",
    "GenericInactionable", "GenericInactionable", "GenericInactionable", "GenericInactionable", "GenericInactionable", "GenericInactionable",
    "GenericInactionable", "GenericInactionable", "GenericInactionable", "GenericInactionable", "GenericInactionable", "GenericInactionable",
    "GenericInactionable", "GenericInactionable", "GenericInactionable", "GenericInactionable", "GenericInactionable", "GenericInactionable",
    "GenericInactionable", "GenericInactionable", "GenericInactionable", "GenericInactionable", "GenericInactionable", "GenericInactionable",
    "GenericInactionable", "GenericInactionable", "GenericInactionable", "GenericInactionable", "GenericInactionable"
  >>

\* states.rs BroadState, the 18 variants
BroadStates ==
    { "Attack", "Air", "Airdodge", "SpecialLanding", "Ground", "Walk", "DashRun",
      "Shield", "Ledge", "LedgeAction", "Hitstun", "GenericInactionable",
      "JumpSquat", "AirJump", "Crouch", "Grab", "Roll", "Spotdodge" }

\* mutation of from_u16: an id past the last variant wraps around
from_u16_wrap(st) == st % (BarrelCannonWait + 1)

\* MeleeState::from_u16
from_u16(st) == IF st <= BarrelCannonWait THEN st ELSE Passive

\* MeleeState::broad_state
broad_state(self) ==
    IF self > BarrelCannonWait THEN "GenericInactionable" ELSE LOOKUP[self + 1]

\* MeleeState::ledge_action
ledge_action(self) ==
    CASE self \in {254, 255} -> Some("GetUp")
      [] self \in {256, 257} -> Some("Attack")
      [] self \in {258, 259} -> Some("Roll")
      [] self \in {260, 261, 262, 263} -> Some("Jump")
      [] OTHER -> None

\* mutation of actionable_state: the ledge-catch frame is eligible too
actionable_state_catch(self) ==
    LET b == broad_state(self) IN
    CASE b = "Air" -> Some("Air")
      [] b = "Ground" -> Some("Ground")
      [] b = "Walk" -> Some("Ground")
      [] b = "DashRun" ->
            (CASE self = TurnRun -> Some("Run")
               [] self = Dash -> Some("Dash")
               [] self = Run -> Some("Run")
               [] self = RunDirect -> Some("Run")
               [] self = RunBrake -> Some("Run")
               [] OTHER -> Panic("unreachable"))
      [] b = "Shield" -> Some("Shield")
      [] b = "Ledge" ->
            (CASE self = CliffCatch -> Some("Ledge")
               [] self = CliffWait -> Some("Ledge")
               [] OTHER -> Panic("unreachable"))
      [] b = "AirJump" -> Some("Air")
      [] b = "Crouch" -> Some("Ground")
      [] OTHER -> None

\* MeleeState::actionable_state; Panic stands for the unreachable!() arms
actionable_state(self) ==
    LET b == broad_state(self) IN
    CASE b = "Air" -> Some("Air")
      [] b = "Ground" -> Some("Ground")
      [] b = "Walk" -> Some("Ground")
      [] b = "DashRun" ->
            (CASE self = TurnRun -> Some("Run")
               [] self = Dash -> Some("Dash")
               [] self = Run -> Some("Run")
               [] self = RunDirect -> Some("Run")
               [] self = RunBrake -> Some("Run")
               [] OTHER -> Panic("unreachable"))
      [] b = "Shield" -> Some("Shield")
      [] b = "Ledge" ->
            (CASE self = CliffCatch -> None
               [] self = CliffWait -> Some("Ledge")
               [] OTHER -> Panic("unreachable"))
      [] b = "AirJump" -> Some("Air")
      [] b = "Crouch" -> Some("Ground")
      [] OTHER -> None

GroundAttack(at) == [kind |-> "GroundAttack", at |-> at]
AirAttack(at) == [kind |-> "AirAttack", at |-> at]

\* MeleeState::attack_type
attack_type(self) ==
    CASE self \in 44..49 -> Some(GroundAttack("Jab"))
      [] self = AttackDash -> Some(GroundAttack("DashAttack"))
      [] self \in 51..55 -> Some(GroundAttack("Ftilt"))
      [] self = 56 -> Some(GroundAttack("Utilt"))
      [] self = 57 -> Some(GroundAttack("Dtilt"))
      [] self \in 58..62 -> Some(GroundAttack("Fsmash"))
      [] self = 63 -> Some(GroundAttack("Usmash"))
      [] self = 64 -> Some(GroundAttack("Dsmash"))
      [] self = AttackAirN -> Some(AirAttack("Nair"))
      [] self = 66 -> Some(AirAttack("Fair"))
      [] self = 67 -> Some(AirAttack("Bair"))
      [] self = 68 -> Some(AirAttack("Uair"))
      [] self = AttackAirLw -> Some(AirAttack("Dair"))
      [] OTHER -> None

\* HighLevelAction: unit variants and the variants that carry an attack
HLA(tag) == [tag |-> tag]
HLAat(tag, at) == [tag |-> tag, at |-> at]

\* ------------------------------------------------------------------------
\* parser.rs: ActionBuilder, the frame cursor
\* ------------------------------------------------------------------------
Min(a, b) == IF a < b THEN a ELSE b

\* let x = v; e: written Let({ e : x \in {v} }), v is evaluated once, before e
Let(S) == CHOOSE r \in S : TRUE

\* ActionBuilder::new
new(frames) == [frames |-> frames, cur_frame |-> 0, action_init_data |-> None]

\* ActionBuilder::finished
finished(self) == Len(self.frames) = 0

\* ActionBuilder::peek
peek(self) == IF self.frames = <<>> THEN None ELSE Some(Head(self.frames).state)

\* ActionBuilder::peek_frame
peek_frame(self) == IF self.frames = <<>> THEN None ELSE Some(Head(self.frames))

\* mutation of peek_n: the slice is taken one frame short
peek_n_short(self, n) ==
    LET len == Min(Len(self.frames), n) - 1
    IN  [i \in 1..len |-> self.frames[i].state]

\* ActionBuilder::peek_n: the states of the first min(len, n) remaining frames
peek_n(self, n) ==
    LET len == Min(Len(self.frames), n)
    IN  [i \in 1..len |-> self.frames[i].state]

\* mutation of next_frame: the frame is taken but cur_frame is not counted up
next_frame_no_count(self) ==
    IF self.frames = <<>>
    THEN [c |-> self, ret |-> None]
    ELSE [c |-> [self EXCEPT !.frames = Tail(@)], ret |-> Some(Head(self.frames))]

\* ActionBuilder::next_frame
next_frame(self) ==
    IF self.frames = <<>>
    THEN [c |-> self, ret |-> None]
    ELSE [c |-> [self EXCEPT !.frames = Tail(@), !.cur_frame = @ + 1],
          ret |-> Some(Head(self.frames))]

\* ActionBuilder::next
next(self) ==
    Let({ [c |-> r.c, ret |-> IF r.ret.some THEN Some(r.ret.val.state) ELSE None] : r \in {next_frame(self)} })

\* mutation of start_action: a snapshot already stored is kept
start_action_keep(self) ==
    LET start_frame == peek_frame(self) IN
    IF ~start_frame.some THEN [c |-> self, ret |-> None]
    ELSE LET a_s == actionable_state(start_frame.val.state) IN
         IF ~a_s.some THEN [c |-> self, ret |-> None]
         ELSE IF self.action_init_data.some THEN [c |-> self, ret |-> Some(<<>>)]
         ELSE [c |-> [self EXCEPT !.action_init_data =
                        Some([action_start |-> self.cur_frame,
                              actionable_state |-> a_s.val,
                              position |-> start_frame.val.position,
                              velocity |-> start_frame.val.velocity])],
               ret |-> Some(<<>>)]

\* ActionBuilder::start_action
start_action(self) ==
    LET start_frame == peek_frame(self) IN
    IF ~start_frame.some THEN [c |-> self, ret |-> None]
    ELSE LET a_s == actionable_state(start_frame.val.state) IN
         IF ~a_s.some THEN [c |-> self, ret |-> None]
         ELSE [c |-> [self EXCEPT !.action_init_data =
                        Some([action_start |-> self.cur_frame,
                              actionable_state |-> a_s.val,
                              position |-> start_frame.val.position,
                              velocity |-> start_frame.val.velocity])],
               ret |-> Some(<<>>)]

\* mutation of finish_action: frame_end is copied from the snapshot
finish_action_end_at_start(self, high_level_action) ==
    IF ~self.action_init_data.some
    THEN Panic("finished action without starting")
    ELSE LET start_data == self.action_init_data.val IN
         [action_taken |-> high_level_action,
          frame_start |-> start_data.action_start,
          frame_end |-> start_data.action_start,
          actionable_state |-> start_data.actionable_state,
          initial_position |-> start_data.position,
          initial_velocity |-> start_data.velocity]

\* ActionBuilder::finish_action
finish_action(self, high_level_action) ==
    IF ~self.action_init_data.some
    THEN Panic("finished action without starting")
    ELSE LET start_data == self.action_init_data.val IN
         [action_taken |-> high_level_action,
          frame_start |-> start_data.action_start,
          frame_end |-> self.cur_frame,
          actionable_state |-> start_data.actionable_state,
          initial_position |-> start_data.position,
          initial_velocity |-> start_data.velocity]

\* the closures given to skip_while and skip_while_at_most, and their call
\* |st| st.broad_state() == b
InBroadState(b) == [closure |-> "broad_state_is", state |-> b]
\* the test of parse's inner loop: m_s.actionable_state() is None
NotActionable == [closure |-> "actionable_state_is_none"]
Call(f, st) ==
    CASE f.closure = "broad_state_is" -> broad_state(st) = f.state
      [] f.closure = "actionable_state_is_none" -> actionable_state(st) = None

\* mutation of skip_while: the frame that fails the predicate is taken as well
skip_while_past(self, f) ==
    LET RECURSIVE loop(_)
        loop(c) ==
            LET nxt == peek(c) IN
            IF nxt.some /\ Call(f, nxt.val) THEN Let({ loop(x_) : x_ \in {next(c).c} })
            ELSE next(c).c
    IN  Let({ loop(x_) : x_ \in {self} })

\* ActionBuilder::skip_while
skip_while(self, f) ==
    LET RECURSIVE loop(_)
        loop(c) ==
            LET nxt == peek(c) IN
            IF nxt.some /\ Call(f, nxt.val) THEN Let({ loop(x_) : x_ \in {next(c).c} }) ELSE c
    IN  Let({ loop(x_) : x_ \in {self} })

\* ActionBuilder::skip_broad_state
skip_broad_state(self, b) == skip_while(self, InBroadState(b))

\* ActionBuilder::skip_while_at_most: n is counted before the frame is consumed,
\* and the loop is left on n = max before self.next()
skip_while_at_most(self, f, max) ==
    LET RECURSIVE loop(_)
        loop(s) ==
            LET nxt == peek(s.c) IN
            IF nxt.some /\ Call(f, nxt.val)
            THEN IF s.n + 1 = max
                 THEN [c |-> s.c, ret |-> s.n + 1]
                 ELSE Let({ loop(x_) : x_ \in {[c |-> next(s.c).c, n |-> s.n + 1]} })
            ELSE [c |-> s.c, ret |-> s.n]
    IN  Let({ loop(x_) : x_ \in {[c |-> self, n |-> 0]} })

\* ------------------------------------------------------------------------
\* parser.rs: impl Action, the segmenter's handlers
\* Each handler yields [c, ret, k]: the cursor after it, the Option<Action>
\* it returns, and k = "return", "parse_next" (the handler ends in the call
\* Action::parse_next(consumer)) or "panic".
\* ------------------------------------------------------------------------
Courtesy(timeout, state) == [timeout |-> timeout, state |-> state]
AIR_COURTESY == Courtesy(10, "Air")
AIRJUMP_COURTESY == Courtesy(10, "AirJump")
GROUND_COURTESY == Courtesy(5, "Ground")
WALK_COURTESY == Courtesy(5, "Walk")
SHIELD_COURTESY == Courtesy(5, "Shield")
\* mutation of HITSTUN_COURTESY: a window of 6 frames
HITSTUN_COURTESY_six == Courtesy(6, "Air")
\* mutation of HITSTUN_COURTESY: the gap state is Ground
HITSTUN_COURTESY_ground == Courtesy(5, "Ground")
HITSTUN_COURTESY == Courtesy(5, "Air")
LEDGE_COURTESY == Courtesy(15, "Ledge")
DASH_COURTESY == Courtesy(3, "DashRun")
CROUCH_COURTESY == Courtesy(5, "Crouch")

EPSILON == 1
\* mutation of JUMP_VELOCITIES: one entry for every Character
JUMP_VELOCITIES_all == [i \in 0..26 |-> 0]
JUMP_VELOCITIES == [i \in 0..25 |-> 0]

Return(c, r) == [c |-> c, ret |-> r, k |-> "return"]
CallParseNext(c) == [c |-> c, ret |-> None, k |-> "parse_next"]
Panicked(c, msg) == [c |-> c, ret |-> Panic(msg), k |-> "panic"]

\* Some(consumer.finish_action(hla))
SomeFinish(c, hla) ==
    Let({ IF IsPanic(finish_action(cc, hla))
        THEN Panicked(cc, finish_action(cc, hla).panic)
        ELSE Return(cc, Some(finish_action(cc, hla))) : cc \in {c} })

\* mutation of skip_courtesy: SkipMax is given for timeout - 1, the number of
\* frames a full window consumes
skip_courtesy_off_by_one(consumer_, c) ==
    Let({ [c |-> skipped.c,
             ret |-> CASE skipped.ret >= c.timeout - 1 -> "SkipMax"
                       [] skipped.ret = 0 -> "NoSkip"
                       [] OTHER -> "SkipSome"]
          : skipped \in {skip_while_at_most(consumer_, InBroadState(c.state), c.timeout)} })

\* Action::skip_courtesy
skip_courtesy(consumer_, c) ==
    Let({ [c |-> skipped.c,
             ret |-> CASE skipped.ret = c.timeout -> "SkipMax"
                       [] skipped.ret = 0 -> "NoSkip"
                       [] OTHER -> "SkipSome"]
          : skipped \in {skip_while_at_most(consumer_, InBroadState(c.state), c.timeout)} })

\* mutation of parse_attack_to_end: only the first Attack frame is taken
parse_attack_to_end_first(consumer_) ==
    LET at == peek(consumer_) IN
    IF ~at.some THEN [c |-> consumer_, ret |-> None]
    ELSE LET a_t == attack_type(at.val) IN
         IF ~a_t.some THEN [c |-> consumer_, ret |-> None]
         ELSE [c |-> next(consumer_).c, ret |-> a_t]

\* Action::parse_attack_to_end: yields [c, ret] with ret an Option<AttackType>
parse_attack_to_end(consumer_) ==
    LET at == peek(consumer_) IN
    IF ~at.some THEN [c |-> consumer_, ret |-> None]
    ELSE LET a_t == attack_type(at.val) IN
         IF ~a_t.some THEN [c |-> consumer_, ret |-> None]
         ELSE [c |-> skip_broad_state(consumer_, "Attack"), ret |-> a_t]

\* Action::parse_simple_action
parse_simple_action(consumer_, b, hla) ==
    SomeFinish(skip_broad_state(consumer_, b), hla)

\* mutation of parse_roll: the two directions are swapped
parse_roll_swapped(consumer_) ==
    Let({ IF ~r.ret.some THEN Return(r.c, None)
        ELSE CASE r.ret.val = EscapeF ->
                    parse_simple_action(r.c, "Roll", HLA("RollBackward"))
               [] r.ret.val = EscapeB ->
                    parse_simple_action(r.c, "Roll", HLA("RollForward"))
               [] OTHER -> Return(r.c, None) : r \in {next(consumer_)} })

\* Action::parse_roll
parse_roll(consumer_) ==
    Let({ IF ~r.ret.some THEN Return(r.c, None)
        ELSE CASE r.ret.val = EscapeF ->
                    parse_simple_action(r.c, "Roll", HLA("RollForward"))
               [] r.ret.val = EscapeB ->
                    parse_simple_action(r.c, "Roll", HLA("RollBackward"))
               [] OTHER -> Return(r.c, None) : r \in {next(consumer_)} })

\* Action::parse_attack
parse_attack(consumer_) ==
    Let({ IF ~r.ret.some THEN Return(r.c, None)
        ELSE SomeFinish(r.c, IF r.ret.val.kind = "AirAttack"
                             THEN HLAat("Aerial", r.ret.val.at)
                             ELSE HLAat("GroundAttack", r.ret.val.at)) : r \in {parse_attack_to_end(consumer_)} })

\* Action::parse_ledge_action
parse_ledge_action(consumer_) ==
    LET ledge_action_state == peek(consumer_) IN
    IF ~ledge_action_state.some THEN Return(consumer_, None)
    ELSE LET la == ledge_action(ledge_action_state.val) IN
         IF ~la.some THEN Return(consumer_, None)
         ELSE LET hla == CASE la.val = "GetUp" -> HLA("LedgeGetUp")
                           [] la.val = "Attack" -> HLA("LedgeAttack")
                           [] la.val = "Jump" -> HLA("LedgeJump")
                           [] la.val = "Roll" -> HLA("LedgeRoll")
              IN  SomeFinish(skip_broad_state(consumer_, "LedgeAction"), hla)

\* Action::parse_hitstun
parse_hitstun(consumer_) ==
    LET timeout == HITSTUN_COURTESY.timeout
        state == HITSTUN_COURTESY.state
        \* the second if of the loop body, and the loop's exit
        RECURSIVE loop(_)
        after_gap(c2) ==
            IF peek(c2).some /\ broad_state(peek(c2).val) = "Hitstun"
            THEN loop(c2)
            ELSE c2
        \* the first if of the loop body, after skip_broad_state(Hitstun)
        gap(c1) ==
            IF \E i \in DOMAIN peek_n(c1, timeout) :
                    broad_state(peek_n(c1, timeout)[i]) # state
            THEN Let({ after_gap(x_) : x_ \in {skip_broad_state(c1, state)} })
            ELSE after_gap(c1)
        loop(c) == Let({ gap(x_) : x_ \in {skip_broad_state(c, "Hitstun")} })
    IN  SomeFinish(Let({ loop(x_) : x_ \in {consumer_} }), HLA("Hitstun"))

\* mutation of parse_courtesy: a window that ends early moves the start of the
\* action to the frame it ended on
parse_courtesy_restart(consumer_, courtesy, wait_action) ==
    Let({ IF r.ret = "SkipMax"
        THEN SomeFinish(skip_broad_state(r.c, courtesy.state), wait_action)
        ELSE CallParseNext([r.c EXCEPT !.action_init_data.val.action_start = r.c.cur_frame])
        : r \in {skip_courtesy(consumer_, courtesy)} })

\* mutation of parse_courtesy: at the end of the frames inside the window
\* the wait Action is given for the frames seen
parse_courtesy_truncated(consumer_, courtesy, wait_action) ==
    Let({ IF r.ret = "SkipMax"
        THEN SomeFinish(skip_broad_state(r.c, courtesy.state), wait_action)
        ELSE IF ~peek(r.c).some
        THEN SomeFinish(r.c, wait_action)
        ELSE CallParseNext(r.c) : r \in {skip_courtesy(consumer_, courtesy)} })

\* mutation of parse_courtesy: the wait Action ends where the window ends
parse_courtesy_window(consumer_, courtesy, wait_action) ==
    Let({ IF r.ret = "SkipMax"
        THEN SomeFinish(r.c, wait_action)
        ELSE CallParseNext(r.c) : r \in {skip_courtesy(consumer_, courtesy)} })

\* Action::parse_courtesy
parse_courtesy(consumer_, courtesy, wait_action) ==
    Let({ IF r.ret = "SkipMax"
        THEN SomeFinish(skip_broad_state(r.c, courtesy.state), wait_action)
        ELSE CallParseNext(r.c) : r \in {skip_courtesy(consumer_, courtesy)} })

\* Action::parse_dash
parse_dash(consumer_) ==
    Let({ IF ~r.ret.some THEN Panicked(r.c, "unwrap on None")
        ELSE parse_courtesy(r.c, DASH_COURTESY,
                            IF r.ret.val.direction = "Left"
                            THEN HLA("DashLeft") ELSE HLA("DashRight")) : r \in {next_frame(consumer_)} })

\* Action::parse_walk
parse_walk(consumer_) ==
    Let({ IF ~r.ret.some THEN Panicked(r.c, "unwrap on None")
        ELSE Let({ IF s.ret = "SkipMax"
                 THEN SomeFinish(skip_broad_state(s.c, "Walk"),
                                 IF r.ret.val.direction = "Left"
                                 THEN HLA("WalkLeft") ELSE HLA("WalkRight"))
                 ELSE CallParseNext(s.c) : s \in {skip_courtesy(r.c, WALK_COURTESY)} }) : r \in {next_frame(consumer_)} })

\* mutation of parse_jump_type: >= for > at the cutoff
parse_jump_type_ge(consumer_) ==
    LET RECURSIVE loop(_)
        loop(s) ==
            LET pk == peek(s.c) IN
            IF ~pk.some THEN [c |-> s.c, ret |-> None]
            ELSE IF broad_state(pk.val) = "JumpSquat"
                 THEN Let({ loop(x_) : x_ \in {next_frame(s.c)} })
                 ELSE s
        classify(w) ==
            IF ~w.ret.some THEN w
            ELSE LET character == w.ret.val.character
                     y_vel == w.ret.val.velocity.y
                 IN  IF character \notin DOMAIN JUMP_VELOCITIES
                     THEN [c |-> w.c, ret |-> None]
                     ELSE IF y_vel >= JUMP_VELOCITIES[character]
                          THEN [c |-> w.c, ret |-> Some("Full")]
                          ELSE [c |-> w.c, ret |-> Some("Short")]
    IN  Let({ IF ~first.ret.some THEN [c |-> first.c, ret |-> None]
            ELSE Let({ classify(x_) : x_ \in {loop(first)} }) : first \in {next_frame(consumer_)} })

\* Action::parse_jump_type: yields [c, ret] with ret an Option<JumpType>
parse_jump_type(consumer_) ==
    LET RECURSIVE loop(_)
        \* the while loop over [c, ret |-> Some(last_squat_f)]; peek()? leaves
        \* with None at the end of the frames
        loop(s) ==
            LET pk == peek(s.c) IN
            IF ~pk.some THEN [c |-> s.c, ret |-> None]
            ELSE IF broad_state(pk.val) = "JumpSquat"
                 THEN Let({ loop(x_) : x_ \in {next_frame(s.c)} })
                 ELSE s
        classify(w) ==
            IF ~w.ret.some THEN w
            ELSE LET character == w.ret.val.character
                     y_vel == w.ret.val.velocity.y
                 IN  IF character \notin DOMAIN JUMP_VELOCITIES
                     THEN [c |-> w.c, ret |-> None]
                     ELSE IF y_vel > JUMP_VELOCITIES[character]
                          THEN [c |-> w.c, ret |-> Some("Full")]
                          ELSE [c |-> w.c, ret |-> Some("Short")]
    IN  Let({ IF ~first.ret.some THEN [c |-> first.c, ret |-> None]
            ELSE Let({ classify(x_) : x_ \in {loop(first)} }) : first \in {next_frame(consumer_)} })

\* mutation of parse_airdodge: the two velocity tests include the bound
parse_airdodge_closed(consumer_) ==
    Let({ IF ~peek(c1).some THEN Return(c1, None)
        ELSE IF broad_state(peek(c1).val) = "SpecialLanding"
             THEN Let({ SomeFinish(skip_broad_state(r.c, "SpecialLanding"),
                                 CASE r.ret.val.velocity.x <= -EPSILON -> HLA("WavelandLeft")
                                   [] r.ret.val.velocity.x >= EPSILON -> HLA("WavelandRight")
                                   [] OTHER -> HLA("WavelandDown")) : r \in {next_frame(c1)} })
             ELSE SomeFinish(c1, HLA("Airdodge")) : c1 \in {skip_broad_state(consumer_, "Airdodge")} })

\* mutation of parse_airdodge: the signs of the two velocity tests are swapped
parse_airdodge_swapped(consumer_) ==
    Let({ IF ~peek(c1).some THEN Return(c1, None)
        ELSE IF broad_state(peek(c1).val) = "SpecialLanding"
             THEN Let({ SomeFinish(skip_broad_state(r.c, "SpecialLanding"),
                                 CASE r.ret.val.velocity.x > EPSILON -> HLA("WavelandLeft")
                                   [] r.ret.val.velocity.x < -EPSILON -> HLA("WavelandRight")
                                   [] OTHER -> HLA("WavelandDown")) : r \in {next_frame(c1)} })
             ELSE SomeFinish(c1, HLA("Airdodge")) : c1 \in {skip_broad_state(consumer_, "Airdodge")} })

\* Action::parse_airdodge
parse_airdodge(consumer_) ==
    Let({ IF ~peek(c1).some THEN Return(c1, None)
        ELSE IF broad_state(peek(c1).val) = "SpecialLanding"
             THEN Let({ SomeFinish(skip_broad_state(r.c, "SpecialLanding"),
                                 CASE r.ret.val.velocity.x < -EPSILON -> HLA("WavelandLeft")
                                   [] r.ret.val.velocity.x > EPSILON -> HLA("WavelandRight")
                                   [] OTHER -> HLA("WavelandDown")) : r \in {next_frame(c1)} })
             ELSE SomeFinish(c1, HLA("Airdodge")) : c1 \in {skip_broad_state(consumer_, "Airdodge")} })

\* mutation of parse_air_jump: the last arm of the match gives None
parse_air_jump_none(consumer_) ==
    Let({ IF s.ret = "SkipMax"
        THEN SomeFinish(skip_broad_state(s.c, "AirJump"), HLA("AirJump"))
        ELSE IF ~peek(s.c).some THEN Return(s.c, None)
             ELSE IF broad_state(peek(s.c).val) = "Attack"
                  THEN Let({ IF ~a.ret.some THEN Return(a.c, None)
                           ELSE IF a.ret.val.kind = "AirAttack"
                                THEN SomeFinish(a.c, HLAat("JumpAerial", a.ret.val.at))
                                ELSE Return(a.c, None) : a \in {parse_attack_to_end(s.c)} })
                  ELSE Return(s.c, None) : s \in {skip_courtesy(next(consumer_).c, AIRJUMP_COURTESY)} })

\* Action::parse_air_jump
parse_air_jump(consumer_) ==
    Let({ IF s.ret = "SkipMax"
        THEN SomeFinish(skip_broad_state(s.c, "AirJump"), HLA("AirJump"))
        ELSE IF ~peek(s.c).some THEN Return(s.c, None)
             ELSE IF broad_state(peek(s.c).val) = "Attack"
                  THEN Let({ IF ~a.ret.some THEN Return(a.c, None)
                           ELSE IF a.ret.val.kind = "AirAttack"
                                THEN SomeFinish(a.c, HLAat("JumpAerial", a.ret.val.at))
                                ELSE Return(a.c, None) : a \in {parse_attack_to_end(s.c)} })
                  ELSE SomeFinish(s.c, HLA("AirJump")) : s \in {skip_courtesy(next(consumer_).c, AIRJUMP_COURTESY)} })

\* Action { action_taken: new_hla, ..airdodge_action }; remap is the match that
\* gives new_hla, as a function on the arms before `hla => hla`
WithActionTaken(res, remap) ==
    Let({ IF r.k = "return" /\ r.ret.some
          THEN [r EXCEPT !.ret = Some([r.ret.val EXCEPT !.action_taken =
                                        IF @ \in DOMAIN remap THEN remap[@] ELSE @])]
          ELSE r : r \in {res} })

\* parse_jump_squat: WavelandRight => WavedashRight, ...
WavedashOf ==
    [h \in {HLA("WavelandRight"), HLA("WavelandLeft"), HLA("WavelandDown")} |->
        CASE h = HLA("WavelandRight") -> HLA("WavedashRight")
          [] h = HLA("WavelandLeft") -> HLA("WavedashLeft")
          [] h = HLA("WavelandDown") -> HLA("WavedashDown")]

\* mutation of LedgeDashOf: WavelandDown is left as it is
LedgeDashOf_sides ==
    [h \in {HLA("WavelandLeft"), HLA("WavelandRight")} |-> HLA("LedgeDash")]

\* parse_ledge: WavelandLeft | WavelandDown | WavelandRight => LedgeDash
LedgeDashOf ==
    [h \in {HLA("WavelandLeft"), HLA("WavelandDown"), HLA("WavelandRight")} |->
        HLA("LedgeDash")]

\* mutation of parse_jump_squat_after: an air attack after the jump is
\* a FullhopAerial whatever the jump type
parse_jump_squat_after_full(c, jump_type, hla) ==
    IF ~peek(c).some THEN Return(c, None)
    ELSE
    LET b == broad_state(peek(c).val) IN
    CASE b = "Attack" ->
           Let({ IF ~a.ret.some THEN Return(a.c, None)
               ELSE SomeFinish(a.c,
                      IF a.ret.val.kind = "AirAttack"
                      THEN HLAat("FullhopAerial", a.ret.val.at)
                      ELSE HLAat("GroundAttack", a.ret.val.at)) : a \in {parse_attack_to_end(c)} })
      [] b = "AirJump" -> parse_air_jump(c)
      [] b \in {"Airdodge", "SpecialLanding"} ->
           WithActionTaken(parse_airdodge(c), WavedashOf)
      [] b = "Grab" -> parse_simple_action(c, "Grab", HLA("Grab"))
      [] OTHER -> SomeFinish(c, hla)

\* Action::parse_jump_squat, the match on the state after the jump
parse_jump_squat_after(c, jump_type, hla) ==
    IF ~peek(c).some THEN Return(c, None)
    ELSE
    LET b == broad_state(peek(c).val) IN
    CASE b = "Attack" ->
           Let({ IF ~a.ret.some THEN Return(a.c, None)
               ELSE SomeFinish(a.c,
                      IF a.ret.val.kind = "AirAttack"
                      THEN IF jump_type = "Full"
                           THEN HLAat("FullhopAerial", a.ret.val.at)
                           ELSE HLAat("ShorthopAerial", a.ret.val.at)
                      ELSE HLAat("GroundAttack", a.ret.val.at)) : a \in {parse_attack_to_end(c)} })
      [] b = "AirJump" -> parse_air_jump(c)
      [] b \in {"Airdodge", "SpecialLanding"} ->
           WithActionTaken(parse_airdodge(c), WavedashOf)
      [] b = "Grab" -> parse_simple_action(c, "Grab", HLA("Grab"))
      [] OTHER -> SomeFinish(c, hla)

\* Action::parse_jump_squat
parse_jump_squat(consumer_) ==
    Let({ IF ~j.ret.some THEN Return(j.c, None)
        ELSE Let({ LET hla == IF j.ret.val = "Full" THEN HLA("Fullhop") ELSE HLA("Shorthop")
                 IN  IF s.ret = "SkipMax" THEN SomeFinish(s.c, hla)
                     ELSE parse_jump_squat_after(s.c, j.ret.val, hla) : s \in {skip_courtesy(j.c, AIR_COURTESY)} }) : j \in {parse_jump_type(consumer_)} })

\* Action::parse_ledge, the AirJump arm of the match after the Air courtesy
parse_ledge_air_jump(consumer_) ==
    Let({ IF s.ret = "SkipMax"
        THEN SomeFinish(skip_broad_state(s.c, "AirJump"), HLA("LedgeHop"))
        ELSE
        IF ~peek(s.c).some THEN Return(s.c, None)
        ELSE
        LET b == broad_state(peek(s.c).val) IN
        CASE b = "Airdodge" ->
               WithActionTaken(parse_airdodge(s.c), LedgeDashOf)
          [] b = "Attack" ->
               Let({ IF ~a.ret.some THEN Return(a.c, None)
                   ELSE SomeFinish(a.c,
                          IF a.ret.val.kind = "AirAttack"
                          THEN HLAat("LedgeAerial", a.ret.val.at)
                          ELSE HLAat("GroundAttack", a.ret.val.at)) : a \in {parse_attack_to_end(s.c)} })
          [] b = "SpecialLanding" ->
               SomeFinish(skip_broad_state(s.c, "SpecialLanding"), HLA("LedgeDash"))
          [] b = "Hitstun" -> parse_hitstun(s.c)
          [] OTHER -> SomeFinish(s.c, HLA("LedgeHop")) : s \in {skip_courtesy(next(consumer_).c, AIRJUMP_COURTESY)} })

\* Action::parse_ledge, the Air arm of the match on the state after the ledge
parse_ledge_air(consumer_) ==
    Let({ IF a.ret = "SkipMax" THEN SomeFinish(a.c, HLA("LedgeDrop"))
        ELSE
        IF ~peek(a.c).some THEN Return(a.c, None)
        ELSE
        LET b2 == broad_state(peek(a.c).val) IN
        CASE b2 = "Hitstun" -> parse_hitstun(a.c)
          [] b2 = "AirJump" -> parse_ledge_air_jump(a.c)
          [] OTHER -> SomeFinish(a.c, HLA("LedgeDrop")) : a \in {skip_courtesy(consumer_, AIR_COURTESY)} })

\* Action::parse_ledge
parse_ledge(consumer_) ==
    Let({ IF s.ret = "SkipMax" THEN SomeFinish(s.c, HLA("LedgeWait"))
        ELSE
        IF ~peek(s.c).some THEN Return(s.c, None)
        ELSE
        LET b == broad_state(peek(s.c).val) IN
        CASE b = "LedgeAction" -> parse_ledge_action(s.c)
          [] b = "Hitstun" -> parse_hitstun(s.c)
          [] b = "Air" -> parse_ledge_air(s.c)
          [] OTHER -> Panicked(s.c, "not yet implemented") : s \in {skip_courtesy(consumer_, LEDGE_COURTESY)} })

\* mutation of parse_next_arm: the SpecialLanding arm finishes an Action
parse_next_arm_landing(consumer_, state_1) ==
    CASE state_1 = "Attack" -> parse_attack(consumer_)
      [] state_1 = "Air" -> parse_courtesy(consumer_, AIR_COURTESY, HLA("AirWait"))
      [] state_1 = "Airdodge" -> parse_airdodge(consumer_)
      [] state_1 = "SpecialLanding" ->
           SomeFinish(skip_broad_state(consumer_, "SpecialLanding"), HLA("GroundWait"))
      [] state_1 = "Ground" ->
           parse_courtesy(consumer_, GROUND_COURTESY, HLA("GroundWait"))
      [] state_1 = "Walk" -> parse_walk(consumer_)
      [] state_1 = "DashRun" -> parse_dash(consumer_)
      [] state_1 = "Shield" -> parse_courtesy(consumer_, SHIELD_COURTESY, HLA("Shield"))
      [] state_1 = "Ledge" -> parse_ledge(consumer_)
      [] state_1 = "LedgeAction" -> parse_ledge_action(consumer_)
      [] state_1 = "Hitstun" -> parse_hitstun(consumer_)
      [] state_1 = "GenericInactionable" ->
           Return(skip_broad_state(consumer_, "GenericInactionable"), None)
      [] state_1 = "JumpSquat" -> parse_jump_squat(consumer_)
      [] state_1 = "AirJump" -> parse_air_jump(consumer_)
      [] state_1 = "Crouch" -> parse_courtesy(consumer_, CROUCH_COURTESY, HLA("Crouch"))
      [] state_1 = "Grab" -> parse_simple_action(consumer_, "Grab", HLA("Grab"))
      [] state_1 = "Roll" -> parse_roll(consumer_)
      [] state_1 = "Spotdodge" ->
           parse_simple_action(consumer_, "Spotdodge", HLA("Spotdodge"))

\* Action::parse_next, the match on state_1: the handler the arm calls
parse_next_arm(consumer_, state_1) ==
    CASE state_1 = "Attack" -> parse_attack(consumer_)
      [] state_1 = "Air" -> parse_courtesy(consumer_, AIR_COURTESY, HLA("AirWait"))
      [] state_1 = "Airdodge" -> parse_airdodge(consumer_)
      [] state_1 = "SpecialLanding" ->
           Return(skip_broad_state(consumer_, "SpecialLanding"), None)
      [] state_1 = "Ground" ->
           parse_courtesy(consumer_, GROUND_COURTESY, HLA("GroundWait"))
      [] state_1 = "Walk" -> parse_walk(consumer_)
      [] state_1 = "DashRun" -> parse_dash(consumer_)
      [] state_1 = "Shield" -> parse_courtesy(consumer_, SHIELD_COURTESY, HLA("Shield"))
      [] state_1 = "Ledge" -> parse_ledge(consumer_)
      [] state_1 = "LedgeAction" -> parse_ledge_action(consumer_)
      [] state_1 = "Hitstun" -> parse_hitstun(consumer_)
      [] state_1 = "GenericInactionable" ->
           Return(skip_broad_state(consumer_, "GenericInactionable"), None)
      [] state_1 = "JumpSquat" -> parse_jump_squat(consumer_)
      [] state_1 = "AirJump" -> parse_air_jump(consumer_)
      [] state_1 = "Crouch" -> parse_courtesy(consumer_, CROUCH_COURTESY, HLA("Crouch"))
      [] state_1 = "Grab" -> parse_simple_action(consumer_, "Grab", HLA("Grab"))
      [] state_1 = "Roll" -> parse_roll(consumer_)
      [] state_1 = "Spotdodge" ->
           parse_simple_action(consumer_, "Spotdodge", HLA("Spotdodge"))

\* ------------------------------------------------------------------------
\* Inputs of parse: frame arrays, given as runs of equal frames
\* ------------------------------------------------------------------------
MaxRun == 16    \* longest run in a one- or two-run array (past LEDGE_COURTESY)
MaxShort == 2   \* longest run in a three-run array

\* lib.rs Frame, without the fields the parser never reads; the position is
\* filled in by Expand
Frame(state, direction, vx, vy, character) ==
    [state |-> state, direction |-> direction, velocity |-> [x |-> vx, y |-> vy],
     character |-> character]

\* one or more frames of every BroadState
FrameKinds ==
    { Frame(Attack11, "Right", 0, 0, 1),
      Frame(AttackAirN, "Right", 0, 0, 1),
      Frame(Fall, "Right", 0, -10, 1),
      Frame(EscapeAir, "Right", 0, 0, 1),
      Frame(LandingFallSpecial, "Right", -20, 0, 1),
      Frame(LandingFallSpecial, "Right", 0, 0, 1),
      Frame(Wait, "Right", 0, 0, 1),
      Frame(WalkSlow, "Left", -5, 0, 1),
      Frame(Dash, "Right", 15, 0, 1),
      Frame(Guard, "Right", 0, 0, 1),
      Frame(CliffWait, "Right", 0, 0, 1),
      Frame(CliffCatch, "Right", 0, 0, 1),
      Frame(CliffClimbSlow, "Right", 0, 0, 1),
      Frame(DamageHi1, "Right", 0, 0, 1),
      Frame(DeadDown, "Right", 0, 0, 1),
      Frame(KneeBend, "Right", 0, 20, 1),
      Frame(KneeBend, "Right", 0, 0, 26),
      Frame(JumpAerialF, "Right", 0, 20, 1),
      Frame(Squat, "Right", 0, 0, 1),
      Frame(Catch, "Right", 0, 0, 1),
      Frame(EscapeF, "Right", 0, 0, 1),
      Frame(Escape, "Right", 0, 0, 1) }

\* the kinds used in three-run arrays
ShortKinds ==
    { k \in FrameKinds :
        /\ k.state \in {AttackAirN, Fall, EscapeAir, LandingFallSpecial, Wait, Dash,
                        CliffWait, CliffClimbSlow, DamageHi1, DeadDown, KneeBend,
                        JumpAerialF}
        /\ k.velocity.x <= 0 \/ k.state = Dash
        /\ k.character = 1 }

\* the BroadStates a courtesy window counts; only their runs need to be long
CourtesyStates == {"Air", "AirJump", "Ground", "Walk", "Shield", "Ledge", "DashRun", "Crouch"}

\* runs of one kind of frame: up to MaxRun frames of a courtesy state, up to
\* MaxShort frames of any other
Runs ==
    { r \in [kind : FrameKinds, len : 1..MaxRun] :
        r.len <= MaxShort \/ broad_state(r.kind.state) \in CourtesyStates }

ShortRuns == [kind : ShortKinds, len : 1..MaxShort]

RECURSIVE Flatten(_)
Flatten(runs) ==
    IF runs = <<>> THEN <<>>
    ELSE [i \in 1..Head(runs).len |-> Head(runs).kind] \o Flatten(Tail(runs))

\* the frame array of a sequence of runs; a frame's position is its index
Expand(runs) ==
    LET fs == Flatten(runs)
    IN  [i \in 1..Len(fs) |->
            [character |-> fs[i].character, direction |-> fs[i].direction,
             velocity |-> fs[i].velocity, position |-> [x |-> i - 1, y |-> 0],
             state |-> fs[i].state]]

\* Arrays for the handlers that parse_next reaches only by a re-dispatch
\* (JumpSquat, Airdodge and Hitstun frames start no Action): a short actionable
\* run first, where the Action starts, then the frames of the handler
MaxSquat == 2    \* longest JumpSquat run of a jump array
MaxAirRun == 11  \* longest Air run after a jump (past AIR_COURTESY)
MaxDodge == 2    \* longest Airdodge, SpecialLanding and leading Air run of a dodge array
MaxHit == 2      \* longest Hitstun run of a hitstun array
MaxGap == 6      \* longest gap and longest last run of a hitstun array (past HITSTUN_COURTESY)
MaxAttack == 2   \* longest run of one raw state in an attack array

\* states.rs Character, by id
Characters == 0..26
\* vertical velocities of a JumpSquat frame, around the cutoff 0.0
JumpVys == {-10, 0, 20}
\* horizontal velocities of a SpecialLanding frame: -2.0, 0.0, +2.0
LandVxs == {-20, 0, 20}

RunOf(kind, len) == [kind |-> kind, len |-> len]
Still(state) == Frame(state, "Right", 0, 0, 1)
Falling == Frame(Fall, "Right", 0, -10, 1)
\* one Ground frame: GROUND_COURTESY answers SkipSome and parse_next goes on
Lead == RunOf(Still(Wait), 1)

\* a jump of every character, then Air frames
JumpArrays ==
    { << RunOf(Frame(Wait, "Right", 0, 0, c), 1),
         RunOf(Frame(KneeBend, "Right", 0, vy, c), n),
         RunOf(Frame(Fall, "Right", 0, -10, c), k) >> :
        vy \in JumpVys, c \in Characters, n \in 1..MaxSquat, k \in 1..MaxAirRun }

\* what follows an Airdodge run: nothing, SpecialLanding, or another state
DodgeAfter ==
    {<<>>}
    \cup { <<RunOf(Frame(LandingFallSpecial, "Right", vx, 0, 1), n)>> :
            vx \in LandVxs, n \in 1..MaxDodge }
    \cup { <<RunOf(k, 1)>> :
            k \in { f \in FrameKinds :
                      broad_state(f.state) \notin {"Airdodge", "SpecialLanding"} } }

\* an Airdodge in the air, and an Airdodge out of a jump
DodgeArrays ==
    { <<RunOf(Falling, k), RunOf(Still(EscapeAir), n)>> \o after :
        k \in 1..MaxDodge, n \in 1..MaxDodge, after \in DodgeAfter }
    \cup { <<Lead, RunOf(Frame(KneeBend, "Right", 0, 20, 1), 1), RunOf(Falling, k),
             RunOf(Still(EscapeAir), n)>> \o after :
            k \in 0..MaxDodge, n \in 1..MaxDodge, after \in DodgeAfter }

\* Hitstun, a gap, Hitstun again, a last run, and perhaps one frame more
GapKinds == { Falling, Still(Wait), Still(Guard), Still(EscapeAir), Still(DeadDown) }
LastKinds == { Falling, Still(Wait), Still(DeadDown), Still(Attack11) }
HitstunArrays ==
    { <<Lead, RunOf(Still(DamageHi1), h1), RunOf(g, gl), RunOf(Still(DamageHi1), h2),
        RunOf(l, ll)>> \o tail :
        h1 \in 1..MaxHit, g \in GapKinds, gl \in 1..MaxGap, h2 \in 1..MaxHit,
        l \in LastKinds, ll \in 1..MaxGap, tail \in {<<>>, <<RunOf(Still(Guard), 1)>>} }

\* a full or short jump, Air frames inside the window, and then a run of any
\* other kind of frame, with a frame after it or without
SquatArrays ==
    { <<Lead, RunOf(Frame(KneeBend, "Right", 0, vy, 1), 1), RunOf(Falling, k), RunOf(x, n)>>
        \o tail :
        vy \in JumpVys, k \in 0..MaxDodge, n \in 1..MaxShort,
        x \in { f \in FrameKinds : broad_state(f.state) \notin {"Air", "JumpSquat"} },
        tail \in {<<>>, <<RunOf(Still(Wait), 1)>>, <<RunOf(Still(AttackAirN), 1)>>} }

\* a hang on the ledge, a drop of a few Air frames, an AirJump run inside or
\* past its window, and what follows it
LedgeArrays ==
    { <<RunOf(Still(CliffWait), l), RunOf(Falling, k), RunOf(Still(JumpAerialF), j)>> \o after :
        l \in 1..MaxDodge, k \in 1..MaxDodge, j \in 1..MaxAirRun,
        after \in DodgeAfter
                 \cup { <<RunOf(Still(EscapeAir), 1)>> \o x : x \in DodgeAfter }
                 \cup { <<RunOf(Still(AttackAirLw), 1), RunOf(Still(Wait), 1)>> } }

\* horizontal velocities around the dead zone of a waveland, in tenths:
\* -0.2, -0.1, 0.0, 0.1, 0.2
DeadZoneVxs == {-2, -1, 0, 1, 2}
\* an Airdodge that lands: the Air frame the Action starts on and the first
\* SpecialLanding frame have the velocity vx, the Airdodge frame before it
\* and the SpecialLanding frames after it another one
DeadZoneArrays ==
    { << RunOf(Frame(Fall, "Right", vx, -10, 1), 1),
         RunOf(Frame(EscapeAir, "Right", far, 0, 1), 1),
         RunOf(Frame(LandingFallSpecial, "Right", vx, 0, 1), 1),
         RunOf(Frame(LandingFallSpecial, "Right", 0 - far, 0, 1), n) >> :
        vx \in DeadZoneVxs, far \in {-20, 20}, n \in 0..MaxDodge }

\* a Ground run that fills its window, drifting at 0.3, then a run of a state
\* without an actionable_state, then nothing or one more Ground frame
SkippedArrays ==
    { << RunOf(Frame(Wait, "Right", 3, 0, 1), GROUND_COURTESY.timeout + 1), RunOf(x, n) >> \o tail :
        x \in { f \in FrameKinds :
                  broad_state(f.state) \in {"Attack", "JumpSquat", "Hitstun", "Airdodge",
                                            "Grab", "Roll", "Spotdodge", "LedgeAction"} },
        n \in 1..MaxShort,
        tail \in {<<>>, <<RunOf(Still(Wait), 1)>>} }

\* a Ground run inside its window, drifting at 0.4, then a SpecialLanding or
\* GenericInactionable run, then nothing or one more Ground frame
GapArrays ==
    { << RunOf(Frame(Wait, "Right", 4, 0, 1), k), RunOf(Still(x), n) >> \o tail :
        k \in 1..MaxShort, x \in {LandingFallSpecial, DeadDown}, n \in 1..MaxShort,
        tail \in {<<>>, <<RunOf(Still(Wait), 1)>>} }

\* a Roll run reached from a Ground frame, whose raw state may change inside
\* the run, and what follows it
RollArrays ==
    { << Lead, RunOf(Still(r[1]), n1), RunOf(Still(r[2]), n2) >> \o tail :
        r \in {EscapeF, EscapeB} \X {EscapeF, EscapeB},
        n1 \in 1..MaxShort, n2 \in 0..MaxShort,
        tail \in {<<>>, <<RunOf(Still(Wait), 1)>>, <<RunOf(Still(Escape), 1)>>} }

\* an Attack run whose raw state changes inside the run, and what follows it
AttackStates == {Attack11, AttackDash, AttackAirN, AttackAirLw}
AttackArrays ==
    { <<Lead, RunOf(Still(a[1]), n1), RunOf(Still(a[2]), n2)>> \o tail :
        a \in { p \in AttackStates \X AttackStates : p[1] # p[2] },
        n1 \in 1..MaxAttack, n2 \in 0..MaxAttack,
        tail \in {<<>>, <<RunOf(Still(Wait), 1)>>, <<RunOf(Falling, 1)>>} }

\* the arrays parse is run on, as sequences of runs: the empty array, one or
\* two runs, three short runs, and the arrays of the re-dispatched handlers
ParseInputs ==
    {<<>>}
    \cup { <<r>> : r \in Runs }
    \cup (Runs \X Runs)
    \cup (ShortRuns \X ShortRuns \X ShortRuns)
    \cup JumpArrays
    \cup DodgeArrays
    \cup HitstunArrays
    \cup AttackArrays
    \cup SquatArrays
    \cup LedgeArrays
    \cup DeadZoneArrays
    \cup SkippedArrays
    \cup GapArrays
    \cup RollArrays

\* ------------------------------------------------------------------------
\* parser.rs: parse, as a state machine over the cursor
\*   pc = "while"       at the head of 'actions: while !consumer.finished()
\*   pc = "parse_next"  at the head of Action::parse_next
\*   pc = "done"        parse has returned actions
\*   pc = "panic"       parse has panicked
\* ------------------------------------------------------------------------
GIIdle ==
    /\ player_actions = <<>> /\ opponent_actions = <<>>
    /\ initiation = 0 /\ response = 0 /\ interactions = <<>>
    /\ gi_input = [player |-> <<>>, opponent |-> <<>>] /\ gi_pc = "idle"

Init ==
    /\ \E runs \in ParseInputs : consumer = new(Expand(runs))
    /\ actions = <<>>
    /\ pc = "while"
    /\ ret = None
    /\ GIIdle

\* mutation of SkipInactionable: the inner loop skips nothing
SkipInactionable_none(c) == c

\* the inner loop of parse: consumer.next() while the frame has no actionable_state
SkipInactionable(c) == skip_while(c, NotActionable)

\* while !consumer.finished() fails
ParseFinished ==
    /\ pc = "while"
    /\ finished(consumer)
    /\ pc' = "done"
    /\ UNCHANGED <<consumer, actions, ret>>
    /\ UNCHANGED gi_vars

\* the inner loop runs out of frames: break 'actions
ParseBreakActions ==
    /\ pc = "while"
    /\ ~finished(consumer)
    /\ \E c \in {SkipInactionable(consumer)} :
        /\ ~peek(c).some
        /\ consumer' = c
    /\ pc' = "done"
    /\ UNCHANGED <<actions, ret>>
    /\ UNCHANGED gi_vars

\* mutation of ParseStartAction: consumer.start_action() is left out
ParseStartAction_without ==
    /\ pc = "while"
    /\ ~finished(consumer)
    /\ \E c \in {SkipInactionable(consumer)} :
        /\ peek(c).some
        /\ IF IsPanic(actionable_state(peek(c).val))
           THEN consumer' = c /\ pc' = "panic"
           ELSE consumer' = c /\ pc' = "parse_next"
    /\ UNCHANGED <<actions, ret>>
    /\ UNCHANGED gi_vars

\* the inner loop stops at an actionable frame; consumer.start_action()
ParseStartAction ==
    /\ pc = "while"
    /\ ~finished(consumer)
    /\ \E c \in {SkipInactionable(consumer)} :
        /\ peek(c).some
        /\ IF IsPanic(actionable_state(peek(c).val))
           THEN consumer' = c /\ pc' = "panic"
           ELSE consumer' = start_action(c).c /\ pc' = "parse_next"
    /\ UNCHANGED <<actions, ret>>
    /\ UNCHANGED gi_vars

\* consumer.peek()? in parse_next at the end of the frames
ParseNextEof ==
    /\ pc = "parse_next"
    /\ ~peek(consumer).some
    /\ pc' = "while"
    /\ UNCHANGED <<consumer, actions, ret>>
    /\ UNCHANGED gi_vars

\* one arm of parse_next, and what parse does with the handler's result
Dispatch(states) ==
    /\ pc = "parse_next"
    /\ peek(consumer).some
    /\ broad_state(peek(consumer).val) \in states
    /\ \E r \in {parse_next_arm(consumer, broad_state(peek(consumer).val))} :
        /\ consumer' = r.c
        /\ pc' = CASE r.k = "return" -> "while"
                   [] r.k = "parse_next" -> "parse_next"
                   [] r.k = "panic" -> "panic"
        /\ actions' = IF r.k = "return" /\ r.ret.some
                      THEN Append(actions, r.ret.val) ELSE actions
    /\ UNCHANGED ret
    /\ UNCHANGED gi_vars

ParseAttack ==
    /\ pc = "parse_next"
    /\ Dispatch({"Attack"})
ParseCourtesy ==
    /\ pc = "parse_next"
    /\ Dispatch({"Air", "Ground", "Shield", "Crouch"})
ParseAirdodge ==
    /\ pc = "parse_next"
    /\ Dispatch({"Airdodge"})
ParseSpecialLanding ==
    /\ pc = "parse_next"
    /\ Dispatch({"SpecialLanding"})
ParseWalk ==
    /\ pc = "parse_next"
    /\ Dispatch({"Walk"})
ParseDash ==
    /\ pc = "parse_next"
    /\ Dispatch({"DashRun"})
ParseLedge ==
    /\ pc = "parse_next"
    /\ Dispatch({"Ledge"})
ParseLedgeAction ==
    /\ pc = "parse_next"
    /\ Dispatch({"LedgeAction"})
ParseHitstun ==
    /\ pc = "parse_next"
    /\ Dispatch({"Hitstun"})
ParseGenericInactionable ==
    /\ pc = "parse_next"
    /\ Dispatch({"GenericInactionable"})
ParseJumpSquat ==
    /\ pc = "parse_next"
    /\ Dispatch({"JumpSquat"})
ParseAirJump ==
    /\ pc = "parse_next"
    /\ Dispatch({"AirJump"})
ParseSimpleAction ==
    /\ pc = "parse_next"
    /\ Dispatch({"Grab", "Spotdodge"})
ParseRoll ==
    /\ pc = "parse_next"
    /\ Dispatch({"Roll"})

Next ==
    \/ ParseFinished
    \/ ParseBreakActions
    \/ ParseStartAction
    \/ ParseNextEof
    \/ ParseAttack
    \/ ParseCourtesy
    \/ ParseAirdodge
    \/ ParseSpecialLanding
    \/ ParseWalk
    \/ ParseDash
    \/ ParseLedge
    \/ ParseLedgeAction
    \/ ParseHitstun
    \/ ParseGenericInactionable
    \/ ParseJumpSquat
    \/ ParseAirJump
    \/ ParseSimpleAction
    \/ ParseRoll

Spec == Init /\ [][Next]_vars

\* ------------------------------------------------------------------------
\* The cursor's operations on their own: from any array and any position,
\* one operation per step; ret records the call and what it returned
\* ------------------------------------------------------------------------
MaxCursorRun == 7   \* longest run of a cursor array (past the timeout of 5)
MaxCap == 6         \* largest max given to skip_while_at_most
MaxPeek == 6        \* largest n given to peek_n

CursorKinds == { k \in FrameKinds : k.state \in {Wait, Guard, Fall, DeadDown} }
CursorRuns == [kind : CursorKinds, len : 1..MaxCursorRun]
CursorInputs == {<<>>} \cup { <<r>> : r \in CursorRuns } \cup (CursorRuns \X CursorRuns)

Courtesies ==
    { AIR_COURTESY, AIRJUMP_COURTESY, GROUND_COURTESY, WALK_COURTESY, SHIELD_COURTESY,
      HITSTUN_COURTESY, LEDGE_COURTESY, DASH_COURTESY, CROUCH_COURTESY }

InitCursor ==
    /\ \E runs \in CursorInputs : consumer = new(Expand(runs))
    /\ actions = <<>>
    /\ pc = "cursor"
    /\ ret = None
    /\ GIIdle

\* Action::skip_courtesy(consumer, c)
CursorSkipCourtesy ==
    /\ pc = "cursor"
    /\ \E c \in Courtesies :
        \E r \in {skip_courtesy(consumer, c)} :
            /\ consumer' = r.c
            /\ ret' = [op |-> "skip_courtesy", courtesy |-> c, val |-> r.ret]
    /\ UNCHANGED <<actions, pc>>
    /\ UNCHANGED gi_vars

\* consumer.skip_while_at_most(|st| st.broad_state() == b, max)
CursorSkipWhileAtMost ==
    /\ pc = "cursor"
    /\ \E b \in {"Ground", "Shield", "Air"}, max \in 1..MaxCap :
        \E r \in {skip_while_at_most(consumer, InBroadState(b), max)} :
            /\ consumer' = r.c
            /\ ret' = [op |-> "skip_while_at_most", state |-> b, max |-> max,
                       val |-> r.ret]
    /\ UNCHANGED <<actions, pc>>
    /\ UNCHANGED gi_vars

\* consumer.next_frame()
CursorNextFrame ==
    /\ pc = "cursor"
    /\ \E r \in {next_frame(consumer)} :
        /\ consumer' = r.c
        /\ ret' = [op |-> "next_frame", val |-> r.ret]
    /\ UNCHANGED <<actions, pc>>
    /\ UNCHANGED gi_vars

\* consumer.next()
CursorNext ==
    /\ pc = "cursor"
    /\ \E r \in {next(consumer)} :
        /\ consumer' = r.c
        /\ ret' = [op |-> "next", val |-> r.ret]
    /\ UNCHANGED <<actions, pc>>
    /\ UNCHANGED gi_vars

\* consumer.finished(), consumer.peek(), consumer.peek_frame() and
\* consumer.peek_n(n): none of them assigns to a field of the cursor
CursorPeek ==
    /\ pc = "cursor"
    /\ \/ ret' = [op |-> "finished", val |-> finished(consumer)]
       \/ ret' = [op |-> "peek", val |-> peek(consumer)]
       \/ ret' = [op |-> "peek_frame", val |-> peek_frame(consumer)]
       \/ \E n \in 0..MaxPeek : ret' = [op |-> "peek_n", n |-> n, val |-> peek_n(consumer, n)]
    /\ UNCHANGED <<consumer, actions, pc>>
    /\ UNCHANGED gi_vars

\* consumer.skip_broad_state(b) and consumer.skip_while(f) with the closure of
\* parse's inner loop
CursorSkipWhile ==
    /\ pc = "cursor"
    /\ \/ \E b \in {"Ground", "Shield", "Air", "GenericInactionable"} :
            /\ consumer' = skip_broad_state(consumer, b)
            /\ ret' = [op |-> "skip_broad_state", pred |-> InBroadState(b)]
       \/ /\ consumer' = skip_while(consumer, NotActionable)
          /\ ret' = [op |-> "skip_while", pred |-> NotActionable]
    /\ UNCHANGED <<actions, pc>>
    /\ UNCHANGED gi_vars

NextCursor ==
    \/ CursorSkipCourtesy
    \/ CursorSkipWhileAtMost
    \/ CursorNextFrame
    \/ CursorNext
    \/ CursorPeek
    \/ CursorSkipWhile

SpecCursor == InitCursor /\ [][NextCursor]_vars

\* ------------------------------------------------------------------------
\* states.rs: a raw state id is converted and classified
\* ------------------------------------------------------------------------
MaxRawId == 400     \* largest raw id (past the last variant, 340)

InitStates ==
    /\ \E st \in 0..MaxRawId : ret = [raw |-> st]
    /\ consumer = new(<<>>)
    /\ actions = <<>>
    /\ pc = "from_u16"
    /\ GIIdle

\* MeleeState::from_u16(st)
StatesFromU16 ==
    /\ pc = "from_u16"
    /\ ret' = [raw |-> ret.raw, state |-> from_u16(ret.raw)]
    /\ pc' = "broad_state"
    /\ UNCHANGED <<consumer, actions>>
    /\ UNCHANGED gi_vars

\* state.broad_state()
StatesBroadState ==
    /\ pc = "broad_state"
    /\ ret' = [raw |-> ret.raw, state |-> ret.state, broad |-> broad_state(ret.state)]
    /\ pc' = "classified"
    /\ UNCHANGED <<consumer, actions>>
    /\ UNCHANGED gi_vars

NextStates ==
    \/ StatesFromU16
    \/ StatesBroadState

SpecStates == InitStates /\ [][NextStates]_vars

\* ------------------------------------------------------------------------
\* states.rs: the u8 encoding of HighLevelAction
\* ------------------------------------------------------------------------
MAX_VALUE == 63
VARIANT_COUNT == 64

\* states.rs GroundAttack and AirAttack
GroundAttacks == {"Utilt", "Ftilt", "Dtilt", "Jab", "Usmash", "Dsmash", "Fsmash", "DashAttack"}
AirAttacks == {"Nair", "Uair", "Fair", "Bair", "Dair"}

\* states.rs HighLevelAction: every value of the enum
HighLevelActions ==
    { HLAat("GroundAttack", at) : at \in GroundAttacks }
    \cup { HLAat(tag, at) :
            tag \in {"Aerial", "JumpAerial", "FullhopAerial", "ShorthopAerial", "LedgeAerial"},
            at \in AirAttacks }
    \cup { HLA(tag) : tag \in
            { "Fullhop", "Shorthop", "Grab", "GroundWait", "AirWait", "AirJump", "Airdodge",
              "LedgeWait", "LedgeDash", "LedgeRoll", "LedgeJump", "LedgeHop", "LedgeGetUp",
              "LedgeAttack", "LedgeDrop", "WavedashRight", "WavedashDown", "WavedashLeft",
              "WavelandRight", "WavelandDown", "WavelandLeft", "DashLeft", "DashRight",
              "WalkLeft", "WalkRight", "Shield", "Spotdodge", "RollForward", "RollBackward",
              "Crouch", "Hitstun" } }

\* the arms of the match of from_u8 below VARIANT_COUNT (index = n + 1)
FROM_U8 == <<
    HLAat("GroundAttack", "Utilt"), HLAat("GroundAttack", "Ftilt"), HLAat("GroundAttack", "Dtilt"),
    HLAat("GroundAttack", "Jab"), HLAat("GroundAttack", "Usmash"), HLAat("GroundAttack", "Dsmash"),
    HLAat("GroundAttack", "Fsmash"), HLAat("GroundAttack", "DashAttack"), HLAat("Aerial", "Nair"),
    HLAat("Aerial", "Uair"), HLAat("Aerial", "Fair"), HLAat("Aerial", "Bair"),
    HLAat("Aerial", "Dair"), HLAat("JumpAerial", "Nair"), HLAat("JumpAerial", "Uair"),
    HLAat("JumpAerial", "Fair"), HLAat("JumpAerial", "Bair"), HLAat("JumpAerial", "Dair"),
    HLA("Fullhop"), HLAat("FullhopAerial", "Nair"), HLAat("FullhopAerial", "Uair"),
    HLAat("FullhopAerial", "Fair"), HLAat("FullhopAerial", "Bair"), HLAat("FullhopAerial", "Dair"),
    HLA("Shorthop"), HLAat("ShorthopAerial", "Nair"), HLAat("ShorthopAerial", "Uair"),
    HLAat("ShorthopAerial", "Fair"), HLAat("ShorthopAerial", "Bair"), HLAat("ShorthopAerial", "Dair"),
    HLA("Grab"), HLA("GroundWait"), HLA("AirWait"),
    HLA("AirJump"), HLA("Airdodge"), HLA("LedgeWait"),
    HLA("LedgeDash"), HLA("LedgeRoll"), HLA("LedgeJump"),
    HLA("LedgeHop"), HLAat("LedgeAerial", "Nair"), HLAat("LedgeAerial", "Uair"),
    HLAat("LedgeAerial", "Fair"), HLAat("LedgeAerial", "Bair"), HLAat("LedgeAerial", "Dair"),
    HLA("LedgeGetUp"), HLA("LedgeAttack"), HLA("LedgeDrop"),
    HLA("WavedashRight"), HLA("WavedashDown"), HLA("WavedashLeft"),
    HLA("WavelandRight"), HLA("WavelandDown"), HLA("WavelandLeft"),
    HLA("DashLeft"), HLA("DashRight"), HLA("WalkLeft"),
    HLA("WalkRight"), HLA("Shield"), HLA("Spotdodge"),
    HLA("RollForward"), HLA("RollBackward"), HLA("Crouch"),
    HLA("Hitstun") >>

\* the arms of the match of into_u8: <<pattern, code>>
INTO_U8 == <<
    <<HLAat("GroundAttack", "Utilt"), 0>>, <<HLAat("GroundAttack", "Ftilt"), 1>>,
    <<HLAat("GroundAttack", "Dtilt"), 2>>, <<HLAat("GroundAttack", "Jab"), 3>>,
    <<HLAat("GroundAttack", "Usmash"), 4>>, <<HLAat("GroundAttack", "Dsmash"), 5>>,
    <<HLAat("GroundAttack", "Fsmash"), 6>>, <<HLAat("GroundAttack", "DashAttack"), 7>>,
    <<HLAat("Aerial", "Nair"), 8>>, <<HLAat("Aerial", "Uair"), 9>>,
    <<HLAat("Aerial", "Fair"), 10>>, <<HLAat("Aerial", "Bair"), 11>>,
    <<HLAat("Aerial", "Dair"), 12>>, <<HLAat("JumpAerial", "Nair"), 13>>,
    <<HLAat("JumpAerial", "Uair"), 14>>, <<HLAat("JumpAerial", "Fair"), 15>>,
    <<HLAat("JumpAerial", "Bair"), 16>>, <<HLAat("JumpAerial", "Dair"), 17>>,
    <<HLA("Fullhop"), 18>>, <<HLAat("FullhopAerial", "Nair"), 19>>,
    <<HLAat("FullhopAerial", "Uair"), 20>>, <<HLAat("FullhopAerial", "Fair"), 21>>,
    <<HLAat("FullhopAerial", "Bair"), 22>>, <<HLAat("FullhopAerial", "Dair"), 23>>,
    <<HLA("Shorthop"), 24>>, <<HLAat("ShorthopAerial", "Nair"), 25>>,
    <<HLAat("ShorthopAerial", "Uair"), 26>>, <<HLAat("ShorthopAerial", "Fair"), 27>>,
    <<HLAat("ShorthopAerial", "Bair"), 28>>, <<HLAat("ShorthopAerial", "Dair"), 29>>,
    <<HLA("Grab"), 30>>, <<HLA("GroundWait"), 31>>,
    <<HLA("AirWait"), 32>>, <<HLA("AirJump"), 33>>,
    <<HLA("Airdodge"), 34>>, <<HLA("LedgeWait"), 35>>,
    <<HLA("LedgeDash"), 36>>, <<HLA("LedgeRoll"), 37>>,
    <<HLA("LedgeJump"), 38>>, <<HLA("LedgeHop"), 39>>,
    <<HLAat("LedgeAerial", "Nair"), 40>>, <<HLAat("LedgeAerial", "Uair"), 41>>,
    <<HLAat("LedgeAerial", "Fair"), 42>>, <<HLAat("LedgeAerial", "Bair"), 43>>,
    <<HLAat("LedgeAerial", "Dair"), 44>>, <<HLA("LedgeGetUp"), 45>>,
    <<HLA("LedgeAttack"), 46>>, <<HLA("LedgeDrop"), 47>>,
    <<HLA("WavedashRight"), 48>>, <<HLA("WavedashDown"), 49>>,
    <<HLA("WavedashLeft"), 50>>, <<HLA("WavelandRight"), 51>>,
    <<HLA("WavelandDown"), 52>>, <<HLA("WavelandLeft"), 53>>,
    <<HLA("DashLeft"), 54>>, <<HLA("DashRight"), 55>>,
    <<HLA("WalkLeft"), 56>>, <<HLA("WalkRight"), 57>>,
    <<HLA("Shield"), 58>>, <<HLA("Spotdodge"), 59>>,
    <<HLA("RollForward"), 60>>, <<HLA("RollBackward"), 61>>,
    <<HLA("Crouch"), 62>>, <<HLA("Hitstun"), MAX_VALUE>> >>

\* HighLevelAction::from_u8
from_u8(n) == IF n >= VARIANT_COUNT THEN None ELSE Some(FROM_U8[n + 1])

\* mutation of into_u8: the code is the index of the variant in the
\* declaration of the enum
into_u8_discriminant(self) ==
    CASE self.tag = "GroundAttack" -> 0
      [] self.tag = "Aerial" -> 1
      [] self.tag = "JumpAerial" -> 2
      [] self.tag = "Fullhop" -> 3
      [] OTHER -> (CHOOSE i \in DOMAIN INTO_U8 : INTO_U8[i][1] = self) - 1

\* HighLevelAction::into_u8: the code of the arm that matches
into_u8(self) == INTO_U8[CHOOSE i \in DOMAIN INTO_U8 : INTO_U8[i][1] = self][2]

MaxU8 == 255    \* largest code given to from_u8

InitCodec ==
    /\ \/ \E n \in 0..MaxU8 : ret = [n |-> n] /\ pc = "from_u8"
       \/ \E h \in HighLevelActions : ret = [hla |-> h] /\ pc = "into_u8"
    /\ consumer = new(<<>>)
    /\ actions = <<>>
    /\ GIIdle

\* HighLevelAction::from_u8(n), and into_u8 of the value it gives
CodecFromU8 ==
    /\ pc = "from_u8"
    /\ \E h \in {from_u8(ret.n)} :
        ret' = IF h.some THEN [n |-> ret.n, hla |-> h, code |-> Some(into_u8(h.val))]
                         ELSE [n |-> ret.n, hla |-> h, code |-> None]
    /\ pc' = "decoded"
    /\ UNCHANGED <<consumer, actions>>
    /\ UNCHANGED gi_vars

\* h.into_u8(), and from_u8 of the code it gives
CodecIntoU8 ==
    /\ pc = "into_u8"
    /\ \E n \in {into_u8(ret.hla)} :
        ret' = [hla |-> ret.hla, code |-> n, back |-> from_u8(n)]
    /\ pc' = "encoded"
    /\ UNCHANGED <<consumer, actions>>
    /\ UNCHANGED gi_vars

NextCodec ==
    \/ CodecFromU8
    \/ CodecIntoU8

SpecCodec == InitCodec /\ [][NextCodec]_vars

\* ------------------------------------------------------------------------
\* lib.rs: generate_interactions
\* A reference &Action is the index of the Action in its argument slice; a
\* remaining slice is the sequence of the indices still in it.
\*   gi_pc = "entry"      before the two split_first calls (lines 158-159)
\*   gi_pc = "response"   at the test of the first while (line 162)
\*   gi_pc = "initiation" at the test of the second while (line 171)
\*   gi_pc = "done"       the function has returned interactions
\* ------------------------------------------------------------------------
MaxStart == 6      \* largest frame_start of an ascending argument
MaxActions == 4    \* most Actions in an ascending argument
MaxAnyStart == 2   \* largest frame_start of an argument in any order
MaxAnyActions == 3 \* most Actions in an argument in any order

\* sequences over 0..hi of length n
RECURSIVE SeqsOfLen(_, _)
SeqsOfLen(hi, n) ==
    IF n = 0 THEN {<<>>}
    ELSE { Append(s, v) : s \in SeqsOfLen(hi, n - 1), v \in 0..hi }

IsAscending(s) == \A i \in 1..(Len(s) - 1) : s[i] < s[i + 1]

\* the frame_start values of the arguments: strictly ascending (what parse
\* produces), in any order, and the example of the specification
AscendingStarts ==
    UNION { { s \in SeqsOfLen(MaxStart, n) : IsAscending(s) } : n \in 0..MaxActions }
AnyStarts == UNION { SeqsOfLen(MaxAnyStart, n) : n \in 0..MaxAnyActions }
ExampleOpponent == <<10, 50, 90>>
ExamplePlayer == <<5, 40, 60, 95>>

\* an Action of lib.rs, of which generate_interactions reads frame_start only
ActionAt(start) == [frame_start |-> start, frame_end |-> start + 1]
ActionsAt(starts) == [i \in 1..Len(starts) |-> ActionAt(starts[i])]

\* the two arguments of a call: both ascending, both in any order, or the
\* example
GIInput(p, o) == [player |-> ActionsAt(p), opponent |-> ActionsAt(o)]
GIInputs(in) ==
    \/ \E p \in AscendingStarts, o \in AscendingStarts : in = GIInput(p, o)
    \/ \E p \in AnyStarts, o \in AnyStarts : in = GIInput(p, o)
    \/ in = GIInput(ExamplePlayer, ExampleOpponent)

\* mutation of split_first: the slice is not shortened
split_first_keep(slice) ==
    IF slice = <<>> THEN None ELSE Some([first |-> Head(slice), rest |-> slice])

\* mutation of split_first: slice.split_last(), the last element and the rest
split_last(slice) ==
    IF slice = <<>> THEN None
    ELSE Some([first |-> slice[Len(slice)], rest |-> SubSeq(slice, 1, Len(slice) - 1)])

\* slice.split_first(): None, or the head and the rest
split_first(slice) ==
    IF slice = <<>> THEN None ELSE Some([first |-> Head(slice), rest |-> Tail(slice)])

ParseIdle ==
    /\ consumer = new(<<>>) /\ actions = <<>> /\ pc = "idle" /\ ret = None

InitGI ==
    /\ ParseIdle
    /\ GIInputs(gi_input)
    /\ player_actions = [i \in 1..Len(gi_input.player) |-> i]
    /\ opponent_actions = [i \in 1..Len(gi_input.opponent) |-> i]
    /\ initiation = 0
    /\ response = 0
    /\ interactions = <<>>
    /\ gi_pc = "entry"

Initiation == gi_input.opponent[initiation]
Response == gi_input.player[response]

\* mutation of ResponseNotAfter: < for <=
ResponseNotAfter_strict == Response.frame_start < Initiation.frame_start

\* line 162: while response.frame_start <= initiation.frame_start
ResponseNotAfter == Response.frame_start <= Initiation.frame_start

\* mutation of InitiationNotAfter: < for <=
InitiationNotAfter_strict == Initiation.frame_start < Response.frame_start

\* line 171: while initiation.frame_start <= response.frame_start
InitiationNotAfter == Initiation.frame_start <= Response.frame_start

\* lines 166-169: InteractionRef { player_response, opponent_initiation }
InteractionRef(resp, init) == [player_response |-> resp, opponent_initiation |-> init]

\* mutation of GIEntryReturn: split_first().unwrap() panics on an empty slice
GIEntryReturn_unwrap ==
    /\ gi_pc = "entry"
    /\ ~split_first(opponent_actions).some \/ ~split_first(player_actions).some
    /\ gi_pc' = "panic"
    /\ UNCHANGED <<player_actions, opponent_actions, initiation, response,
                   interactions, gi_input>>
    /\ UNCHANGED parse_vars

\* lines 158-159: either slice is empty, return the empty list
GIEntryReturn ==
    /\ gi_pc = "entry"
    /\ ~split_first(opponent_actions).some \/ ~split_first(player_actions).some
    /\ IF split_first(opponent_actions).some
       THEN /\ initiation' = split_first(opponent_actions).val.first
            /\ opponent_actions' = split_first(opponent_actions).val.rest
       ELSE UNCHANGED <<initiation, opponent_actions>>
    /\ gi_pc' = "done"
    /\ UNCHANGED <<player_actions, response, interactions, gi_input>>
    /\ UNCHANGED parse_vars

\* lines 158-159: both split_first calls succeed
GIEntry ==
    /\ gi_pc = "entry"
    /\ split_first(opponent_actions).some /\ split_first(player_actions).some
    /\ initiation' = split_first(opponent_actions).val.first
    /\ opponent_actions' = split_first(opponent_actions).val.rest
    /\ response' = split_first(player_actions).val.first
    /\ player_actions' = split_first(player_actions).val.rest
    /\ gi_pc' = "response"
    /\ UNCHANGED <<interactions, gi_input>>
    /\ UNCHANGED parse_vars

\* lines 162-163: the response is not after the initiation, take the next one
GIResponseNext ==
    /\ gi_pc = "response"
    /\ ResponseNotAfter
    /\ split_first(player_actions).some
    /\ response' = split_first(player_actions).val.first
    /\ player_actions' = split_first(player_actions).val.rest
    /\ UNCHANGED <<opponent_actions, initiation, interactions, gi_input, gi_pc>>
    /\ UNCHANGED parse_vars

\* lines 162-163: no response is left, break 'outer
GIResponseBreak ==
    /\ gi_pc = "response"
    /\ ResponseNotAfter
    /\ ~split_first(player_actions).some
    /\ gi_pc' = "done"
    /\ UNCHANGED <<player_actions, opponent_actions, initiation, response,
                   interactions, gi_input>>
    /\ UNCHANGED parse_vars

\* mutation of GIPush: the second while is left out, the outer loop goes on
\* with the same initiation
GIPush_stay ==
    /\ gi_pc = "response"
    /\ ~ResponseNotAfter
    /\ interactions' = Append(interactions, InteractionRef(response, initiation))
    /\ gi_pc' = "response"
    /\ UNCHANGED <<player_actions, opponent_actions, initiation, response, gi_input>>
    /\ UNCHANGED parse_vars

\* lines 166-169: the response is after the initiation, push the pair
GIPush ==
    /\ gi_pc = "response"
    /\ ~ResponseNotAfter
    /\ interactions' = Append(interactions, InteractionRef(response, initiation))
    /\ gi_pc' = "initiation"
    /\ UNCHANGED <<player_actions, opponent_actions, initiation, response, gi_input>>
    /\ UNCHANGED parse_vars

\* mutation of GIInitiationNext: an if for the second while, one initiation is
\* taken and the outer loop goes on
GIInitiationNext_once ==
    /\ gi_pc = "initiation"
    /\ InitiationNotAfter
    /\ split_first(opponent_actions).some
    /\ initiation' = split_first(opponent_actions).val.first
    /\ opponent_actions' = split_first(opponent_actions).val.rest
    /\ gi_pc' = "response"
    /\ UNCHANGED <<player_actions, response, interactions, gi_input>>
    /\ UNCHANGED parse_vars

\* lines 171-172: the initiation is not after the response, take the next one
GIInitiationNext ==
    /\ gi_pc = "initiation"
    /\ InitiationNotAfter
    /\ split_first(opponent_actions).some
    /\ initiation' = split_first(opponent_actions).val.first
    /\ opponent_actions' = split_first(opponent_actions).val.rest
    /\ UNCHANGED <<player_actions, response, interactions, gi_input, gi_pc>>
    /\ UNCHANGED parse_vars

\* lines 171-172: no initiation is left, break 'outer
GIInitiationBreak ==
    /\ gi_pc = "initiation"
    /\ InitiationNotAfter
    /\ ~split_first(opponent_actions).some
    /\ gi_pc' = "done"
    /\ UNCHANGED <<player_actions, opponent_actions, initiation, response,
                   interactions, gi_input>>
    /\ UNCHANGED parse_vars

\* line 171 fails: the initiation is after the response, next round of 'outer
GIOuterLoop ==
    /\ gi_pc = "initiation"
    /\ ~InitiationNotAfter
    /\ gi_pc' = "response"
    /\ UNCHANGED <<player_actions, opponent_actions, initiation, response,
                   interactions, gi_input>>
    /\ UNCHANGED parse_vars

NextGI ==
    \/ GIEntryReturn
    \/ GIEntry
    \/ GIResponseNext
    \/ GIResponseBreak
    \/ GIPush
    \/ GIInitiationNext
    \/ GIInitiationBreak
    \/ GIOuterLoop

SpecGI == InitGI /\ [][NextGI]_vars

\* generate_interactions is sequential code: a step that can be taken is taken
SpecGIFair == SpecGI /\ WF_vars(NextGI)

\* ------------------------------------------------------------------------
\* Properties of parse
\* ------------------------------------------------------------------------
Terminated == pc \in {"done", "panic"}

\* C1: the Actions parse has pushed are in strictly ascending order and do not
\* overlap: each ends no later than the next one starts, and frame_start
\* strictly increases along the list.
C1_ActionsAscending ==
    \A i \in 1..(Len(actions) - 1) :
        /\ actions[i].frame_end <= actions[i + 1].frame_start
        /\ actions[i].frame_start < actions[i + 1].frame_start

\* parse has returned a list of at least two Actions, two of them adjacent
C1_Witness ==
    /\ pc = "done"
    /\ Len(actions) >= 2
    /\ \E i \in 1..(Len(actions) - 1) : actions[i].frame_end = actions[i + 1].frame_start

\* C2: parse never panics, whatever the frame array; in particular
\* parse_ledge handles every BroadState that follows a Ledge run. (Refuted: on
\* [CliffWait, Wait] parse_ledge reaches its todo!() arm.)
C2_ParseNeverPanics == pc # "panic"

\* C3: parse terminates.  No step moves the cursor index back; a re-dispatch
\* through parse_next and the end of a round of the top-level loop come only
\* after a frame was consumed; parse stops only by returning or panicking, and
\* it returns only with the cursor exhausted.
C3_StepConsumes ==
    /\ consumer'.cur_frame >= consumer.cur_frame
    /\ (pc = "parse_next" /\ pc' = "parse_next") =>
            consumer'.cur_frame > consumer.cur_frame
    /\ (pc = "parse_next" /\ pc' = "while") =>
            consumer'.cur_frame > consumer'.action_init_data.val.action_start
    /\ (pc = "while" /\ pc' = "done" /\ ~finished(consumer)) =>
            consumer'.cur_frame > consumer.cur_frame
    /\ (pc = "while" /\ pc' = "parse_next") =>
            consumer'.action_init_data.val.action_start = consumer'.cur_frame
C3_ParseTerminates ==
    /\ [][C3_StepConsumes]_vars
    /\ [](Terminated \/ ENABLED <<Next>>_vars)
    /\ [](pc = "done" => finished(consumer))

\* parse has returned an Action that began on a Ground frame and ended as an
\* attack: the courtesy handler re-dispatched through parse_next
C3_Witness ==
    /\ pc = "done"
    /\ finished(consumer)
    /\ \E i \in 1..Len(actions) :
        /\ actions[i].action_taken.tag = "GroundAttack"
        /\ actions[i].actionable_state = "Ground"

\* C4: every Action parse has pushed has frame_start < frame_end.
C4_ActionsNonEmpty ==
    \A i \in 1..Len(actions) : actions[i].frame_start < actions[i].frame_end

\* parse has returned an Action of exactly one frame
C4_Witness ==
    /\ pc = "done"
    /\ \E i \in 1..Len(actions) : actions[i].frame_end = actions[i].frame_start + 1

\* ------------------------------------------------------------------------
\* Properties of generate_interactions
\* ------------------------------------------------------------------------
PlayerStart(i) == gi_input.player[i].frame_start
OpponentStart(i) == gi_input.opponent[i].frame_start
StartsOf(as) == [i \in 1..Len(as) |-> as[i].frame_start]
AscendingInput ==
    IsAscending(StartsOf(gi_input.player)) /\ IsAscending(StartsOf(gi_input.opponent))
ExampleInput ==
    /\ StartsOf(gi_input.player) = ExamplePlayer
    /\ StartsOf(gi_input.opponent) = ExampleOpponent
\* the pairs as (initiation frame_start, response frame_start)
PairStarts ==
    [k \in 1..Len(interactions) |->
        <<OpponentStart(interactions[k].opponent_initiation),
          PlayerStart(interactions[k].player_response)>>]
PairedResponses == { interactions[k].player_response : k \in 1..Len(interactions) }
PairedInitiations == { interactions[k].opponent_initiation : k \in 1..Len(interactions) }
\* the response of the pair before pair k: its index and frame_start (0 and -1
\* before the first pair)
PrevResponse(k) == IF k = 1 THEN 0 ELSE interactions[k - 1].player_response
PrevResponseStart(k) == IF k = 1 THEN -1 ELSE PlayerStart(PrevResponse(k))

\* C5 as stated: on opponent [10, 50, 90] and player [5, 40, 60, 95] the result
\* is the two pairs (10, 40) and (90, 95).
C5_ExampleTwoPairs ==
    (gi_pc = "done" /\ ExampleInput) => PairStarts = << <<10, 40>>, <<90, 95>> >>

\* C5, amended: on that input the result is the three pairs (10, 40), (50, 60)
\* and (90, 95); of the responses only the one at 5 is in no pair.
C5_ExampleThreePairs ==
    (gi_pc = "done" /\ ExampleInput) =>
        /\ PairStarts = << <<10, 40>>, <<50, 60>>, <<90, 95>> >>
        /\ { PlayerStart(i) : i \in (1..Len(gi_input.player)) \ PairedResponses } = {5}

C5_Witness == gi_pc = "done" /\ ExampleInput /\ Len(interactions) = 3

\* C6 as stated: on ascending inputs, the initiation of a pair is the latest
\* opponent Action that starts before the pair's response.
C6_PairedWithLatest ==
    AscendingInput =>
        \A k \in 1..Len(interactions) :
            \A o \in 1..Len(gi_input.opponent) :
                OpponentStart(o) < PlayerStart(interactions[k].player_response)
                    => o <= interactions[k].opponent_initiation

\* C6, amended: on ascending inputs, the initiation of a pair is the earliest
\* opponent Action that starts after the response of the pair before it (the
\* first opponent Action for the first pair); the opponent Actions between it
\* and the response are in no pair.
C6_PairedWithEarliest ==
    AscendingInput =>
        /\ \A k \in 1..Len(interactions) :
            LET o == interactions[k].opponent_initiation IN
            /\ OpponentStart(o) > PrevResponseStart(k)
            /\ \A o2 \in 1..(o - 1) : OpponentStart(o2) <= PrevResponseStart(k)
        /\ gi_pc = "done" =>
            \A k \in 1..Len(interactions) :
                \A o2 \in 1..Len(gi_input.opponent) :
                    ( /\ o2 > interactions[k].opponent_initiation
                      /\ OpponentStart(o2) <= PlayerStart(interactions[k].player_response) )
                        => o2 \notin PairedInitiations

\* the player was idle across two initiations, and the response is paired with
\* the first of them
C6_Witness ==
    /\ gi_pc = "done"
    /\ AscendingInput
    /\ \E k \in 1..Len(interactions) :
        LET o == interactions[k].opponent_initiation
            p == interactions[k].player_response
        IN  /\ o < Len(gi_input.opponent)
            /\ OpponentStart(o + 1) < PlayerStart(p)
            /\ \A q \in 1..Len(gi_input.player) :
                 ~(OpponentStart(o) < PlayerStart(q) /\ PlayerStart(q) < PlayerStart(p))

\* C7: on ascending inputs, the response of every pair starts strictly after
\* the pair's initiation, and it is the earliest such player Action: every
\* player Action before it starts no later than the initiation.
C7_ResponseFirstAfter ==
    AscendingInput =>
        \A k \in 1..Len(interactions) :
            LET o == interactions[k].opponent_initiation
                p == interactions[k].player_response
            IN  /\ PlayerStart(p) > OpponentStart(o)
                /\ \A q \in 1..(p - 1) : PlayerStart(q) <= OpponentStart(o)
                /\ p > PrevResponse(k)

\* a pair whose response was reached by passing a player Action that started
\* with the initiation, on the same frame
C7_Witness ==
    /\ gi_pc = "done"
    /\ AscendingInput
    /\ \E k \in 1..Len(interactions) :
        LET o == interactions[k].opponent_initiation
            p == interactions[k].player_response
        IN  p > 1 /\ PlayerStart(p - 1) = OpponentStart(o)

\* C8: of the player Actions that start after the initiation of a pair and
\* before the next opponent Action, only the pair's response is in a pair; and
\* an opponent Action after the initiation that starts no later than the
\* response is in no pair.
C8_OnlyFirstResponse ==
    gi_pc = "done" =>
        \A k \in 1..Len(interactions) :
            LET o == interactions[k].opponent_initiation
                p == interactions[k].player_response
            IN  /\ \A q \in 1..Len(gi_input.player) :
                    ( /\ q # p
                      /\ PlayerStart(q) > OpponentStart(o)
                      /\ o < Len(gi_input.opponent) => PlayerStart(q) < OpponentStart(o + 1) )
                        => q \notin PairedResponses
                /\ \A o2 \in 1..Len(gi_input.opponent) :
                    (o2 > o /\ OpponentStart(o2) <= PlayerStart(p))
                        => o2 \notin PairedInitiations

\* two player Actions between one initiation and the next, of which the first
\* is paired, and an initiation passed over because the response of the pair
\* before had started by then
C8_Witness ==
    /\ gi_pc = "done"
    /\ AscendingInput
    /\ \E k \in 1..Len(interactions) :
        LET o == interactions[k].opponent_initiation
            p == interactions[k].player_response
        IN  /\ o < Len(gi_input.opponent)
            /\ p < Len(gi_input.player)
            /\ PlayerStart(p + 1) < OpponentStart(o + 1)
    /\ \E k \in 1..Len(interactions) :
        LET o == interactions[k].opponent_initiation
            p == interactions[k].player_response
        IN  /\ o < Len(gi_input.opponent)
            /\ OpponentStart(o + 1) <= PlayerStart(p)

\* C9: generate_interactions never fails, and with an empty player or opponent
\* slice it returns the empty list.
C9_EmptyInEmptyOut ==
    /\ gi_pc # "panic"
    /\ gi_pc = "done" \/ ENABLED <<NextGI>>_vars
    /\ (gi_pc = "done" /\ (gi_input.player = <<>> \/ gi_input.opponent = <<>>))
            => interactions = <<>>

\* the function has returned on an empty player slice and a non-empty opponent
C9_Witness ==
    /\ gi_pc = "done"
    /\ gi_input.player = <<>>
    /\ gi_input.opponent # <<>>
    /\ interactions = <<>>

\* ------------------------------------------------------------------------
\* Properties of the cursor
\* ------------------------------------------------------------------------
\* the number of frames at the head of fs whose BroadState is b
MatchLen(fs, b) ==
    IF \A i \in 1..Len(fs) : broad_state(fs[i].state) = b
    THEN Len(fs)
    ELSE (CHOOSE i \in 1..Len(fs) :
            /\ broad_state(fs[i].state) # b
            /\ \A j \in 1..(i - 1) : broad_state(fs[j].state) = b) - 1

\* C10: with a timeout of 5, skip_courtesy classifies by the number m of
\* matching frames at the cursor: SkipMax for m >= 5 (5 matching frames and a
\* mismatch among them), SkipSome for 0 < m < 5, NoSkip for m = 0 (a mismatch
\* on the first frame, or no frame left); the count skip_while_at_most returns
\* under a cap of 5 is 5, m and 0 in these cases.
C10_Step ==
    /\ ("op" \in DOMAIN ret' /\ ret'.op = "skip_courtesy" /\ ret'.courtesy.timeout = 5) =>
        LET m == MatchLen(consumer.frames, ret'.courtesy.state) IN
        ret'.val = CASE m >= 5 -> "SkipMax" [] m = 0 -> "NoSkip" [] OTHER -> "SkipSome"
    /\ ("op" \in DOMAIN ret' /\ ret'.op = "skip_while_at_most" /\ ret'.max = 5) =>
        LET m == MatchLen(consumer.frames, ret'.state) IN
        ret'.val = Min(m, 5)
C10_SkipCourtesyClassifies == [][C10_Step]_vars

\* skip_courtesy with a timeout of 5 has answered SkipMax at the start of an
\* array that begins with exactly 5 matching frames and then a mismatch: the
\* cursor is on the fifth, the mismatch follows
C10_Witness ==
    /\ pc = "cursor"
    /\ "op" \in DOMAIN ret /\ ret.op = "skip_courtesy" /\ ret.courtesy = GROUND_COURTESY
    /\ ret.val = "SkipMax"
    /\ consumer.cur_frame = 4
    /\ Len(consumer.frames) >= 2
    /\ broad_state(consumer.frames[1].state) = "Ground"
    /\ broad_state(consumer.frames[2].state) # "Ground"

\* ------------------------------------------------------------------------
\* Properties of the handlers, stated on the step of parse_next that runs one
\* ------------------------------------------------------------------------
\* the frames of fs after the first n
Drop(fs, n) == SubSeq(fs, n + 1, Len(fs))
\* parse_next is about to run the handler of BroadState b
Handles(b) ==
    /\ pc = "parse_next"
    /\ peek(consumer).some
    /\ broad_state(peek(consumer).val) = b
\* the step returns to parse with exactly one Action more, of kind hla
Emits(hla) ==
    /\ pc' = "while"
    /\ Len(actions') = Len(actions) + 1
    /\ SubSeq(actions', 1, Len(actions)) = actions
    /\ actions'[Len(actions')].action_taken = hla
\* the step returns to parse with no Action more (the handler gave None)
EmitsNothing == pc' = "while" /\ actions' = actions

\* C11: when the JumpSquat handler runs on a JumpSquat run followed by 10 or
\* more Air frames, of a character with a cutoff in JUMP_VELOCITIES, it gives
\* exactly one Action: Fullhop if the vertical velocity of the last JumpSquat
\* frame is strictly above the cutoff, Shorthop otherwise.
C11_Step ==
    LET fs == consumer.frames
        q == MatchLen(fs, "JumpSquat")
        a == MatchLen(Drop(fs, q), "Air")
    IN  ( /\ Handles("JumpSquat")
          /\ a >= AIR_COURTESY.timeout
          /\ fs[q].character \in DOMAIN JUMP_VELOCITIES )
        => Emits(IF fs[q].velocity.y > JUMP_VELOCITIES[fs[q].character]
                 THEN HLA("Fullhop") ELSE HLA("Shorthop"))
C11_JumpHeight == [][C11_Step]_vars

\* the JumpSquat handler has just given a Fullhop after a full Air window:
\* the cursor stands on the Air frame the window left
C11_Witness ==
    /\ pc = "while"
    /\ Len(actions) = 1
    /\ actions[1].action_taken = HLA("Fullhop")
    /\ actions[1].frame_end = consumer.cur_frame
    /\ consumer.frames # <<>>
    /\ broad_state(Head(consumer.frames).state) = "Air"

\* the kind of waveland (or, out of a jump, of wavedash) for the horizontal
\* velocity -2.0, 0.0 or +2.0 of the first SpecialLanding frame
LandingSide(vx) == CASE vx = -20 -> "Left" [] vx = 20 -> "Right" [] vx = 0 -> "Down"
\* what the frames fs, an Airdodge run and what follows it, are to give, with
\* the names of a waveland (in the air) or of a wavedash (out of a jump)
DodgeResult(fs, left, right, down) ==
    LET after == Drop(fs, MatchLen(fs, "Airdodge")) IN
    IF broad_state(after[1].state) = "SpecialLanding"
    THEN CASE LandingSide(after[1].velocity.x) = "Left" -> HLA(left)
           [] LandingSide(after[1].velocity.x) = "Right" -> HLA(right)
           [] LandingSide(after[1].velocity.x) = "Down" -> HLA(down)
    ELSE HLA("Airdodge")
\* fs is an Airdodge run followed by a frame the property speaks of
DodgeCase(fs) ==
    LET d == MatchLen(fs, "Airdodge") IN
    /\ d >= 1
    /\ Len(fs) > d
    /\ broad_state(fs[d + 1].state) = "SpecialLanding" => fs[d + 1].velocity.x \in LandVxs

\* C12: the Airdodge handler, on an Airdodge run followed by SpecialLanding,
\* gives WavelandLeft, WavelandRight or WavelandDown for a horizontal velocity
\* of -2.0, +2.0 or 0.0 of the first SpecialLanding frame; the JumpSquat
\* handler, reaching the same frames after fewer than 10 Air frames, gives
\* WavedashLeft, WavedashRight or WavedashDown; an Airdodge run followed by
\* any other BroadState gives Airdodge in both.
C12_Step ==
    /\ (Handles("Airdodge") /\ DodgeCase(consumer.frames)) =>
            Emits(DodgeResult(consumer.frames, "WavelandLeft", "WavelandRight", "WavelandDown"))
    /\ LET fs == consumer.frames
           q == MatchLen(fs, "JumpSquat")
           a == MatchLen(Drop(fs, q), "Air")
       IN  ( /\ Handles("JumpSquat")
             /\ fs[q].character \in DOMAIN JUMP_VELOCITIES
             /\ a < AIR_COURTESY.timeout
             /\ DodgeCase(Drop(fs, q + a)) )
           => Emits(DodgeResult(Drop(fs, q + a), "WavedashLeft", "WavedashRight", "WavedashDown"))
C12_WavelandWavedash == [][C12_Step]_vars

\* the JumpSquat handler has just given a WavedashRight
C12_Witness ==
    /\ pc = "while"
    /\ Len(actions) = 1
    /\ actions[1].action_taken = HLA("WavedashRight")
    /\ actions[1].frame_start = 0
    /\ actions[1].frame_end = consumer.cur_frame

\* the frames fs are a Hitstun run, a gap of two frames that are not Hitstun,
\* a second Hitstun run and a frame that is not Hitstun
HitstunGap(fs) ==
    LET h1 == MatchLen(fs, "Hitstun")
        h2 == MatchLen(Drop(fs, h1 + 2), "Hitstun")
    IN  /\ h1 >= 1
        /\ Len(fs) > h1 + 2
        /\ broad_state(fs[h1 + 2].state) # "Hitstun"
        /\ h2 >= 1
        /\ Len(fs) > h1 + 2 + h2
\* the number of frames of the two Hitstun runs and the gap
HitstunSpan(fs) ==
    LET h1 == MatchLen(fs, "Hitstun")
    IN  h1 + 2 + MatchLen(Drop(fs, h1 + 2), "Hitstun")
\* the step gives one Hitstun Action that reaches the end of the second run
OneHitstunAction ==
    /\ Emits(HLA("Hitstun"))
    /\ actions'[Len(actions')].frame_start <= consumer.cur_frame
    /\ actions'[Len(actions')].frame_end >= consumer.cur_frame + HitstunSpan(consumer.frames)
    /\ actions'[Len(actions')].frame_end = consumer'.cur_frame

\* C13 as stated: a Hitstun run interrupted by a 2-frame gap of any
\* non-Hitstun BroadState, then more Hitstun frames, then a non-Hitstun
\* state, gives exactly one Hitstun Action that spans both runs and the gap.
C13_Step_AnyGap ==
    (Handles("Hitstun") /\ HitstunGap(consumer.frames)) => OneHitstunAction
C13_AnyGapAbsorbed == [][C13_Step_AnyGap]_vars

\* C13 (amended): a Hitstun run interrupted by a gap of 2 Air frames, then
\* more Hitstun frames, then a non-Hitstun state, gives exactly one Hitstun
\* Action that spans both runs and the gap; the resumed run starts no second
\* Action.
C13_Step ==
    LET fs == consumer.frames
        h1 == MatchLen(fs, "Hitstun")
    IN  ( /\ Handles("Hitstun")
          /\ HitstunGap(fs)
          /\ broad_state(fs[h1 + 1].state) = "Air"
          /\ broad_state(fs[h1 + 2].state) = "Air" )
        => OneHitstunAction
C13_AirGapAbsorbed == [][C13_Step]_vars

\* one Hitstun Action has been given over a Hitstun run, two Air frames and
\* a second Hitstun run, and a frame that is not Hitstun is next
C13_Witness ==
    /\ pc = "while"
    /\ Len(actions) = 1
    /\ actions[1].action_taken = HLA("Hitstun")
    /\ actions[1].frame_start = 0
    /\ actions[1].frame_end = consumer.cur_frame
    /\ consumer.cur_frame = 1 + MaxHit + 2 + MaxHit
    /\ consumer.frames # <<>>
    /\ broad_state(Head(consumer.frames).state) = "Ground"

\* ------------------------------------------------------------------------
\* Properties of the state tables
\* ------------------------------------------------------------------------
\* C14: broad_state is total: every raw id 0..340 is its own MeleeState and
\* has one of the 18 BroadStates, and every raw id above 340, converted by
\* from_u16, is classified GenericInactionable.
C14_BroadStateTotal ==
    /\ pc \in {"broad_state", "classified"} =>
            /\ ret.state \in 0..BarrelCannonWait
            /\ ret.raw <= BarrelCannonWait => ret.state = ret.raw
    /\ pc = "classified" =>
            /\ ret.broad \in BroadStates
            /\ ret.raw > BarrelCannonWait => ret.broad = "GenericInactionable"

\* the largest raw id, past the last variant, has been classified
C14_Witness ==
    /\ pc = "classified"
    /\ ret.raw = MaxRawId
    /\ ret.raw > BarrelCannonWait
    /\ ret.broad = "GenericInactionable"

\* every frame of fs has BroadState b
AllOf(fs, b) == MatchLen(fs, b) = Len(fs)
\* the step takes every frame that is left and gives no Action; the call of
\* parse_next it may end with finds no frame
DropsTail ==
    /\ actions' = actions
    /\ consumer'.frames = <<>>
    /\ pc' \in {"parse_next", "while"}
\* the frames are a JumpSquat run, fewer than 10 Air frames and an Airdodge
\* run (either may be empty), and then end
EndsAfterJump(fs) ==
    LET q == MatchLen(fs, "JumpSquat")
        a == MatchLen(Drop(fs, q), "Air")
    IN  /\ a < AIR_COURTESY.timeout
        /\ AllOf(Drop(fs, q + a), "Airdodge")

\* the last frame of the JumpSquat run at the head of fs
LastSquat(fs) == fs[MatchLen(fs, "JumpSquat")]

\* C15: no truncated Action is given when the frames end in the middle of a
\* classification: inside a courtesy window (fewer than timeout frames of
\* the state, then the end), during a JumpSquat run or during an Airdodge
\* run, the handler gives no Action, and neither the call of parse_next at
\* the end of the frames nor the loop of parse adds one.
C15_Step ==
    /\ pc = "while" => actions' = actions
    /\ (pc = "parse_next" /\ ~peek(consumer).some) => EmitsNothing
    /\ \A c \in Courtesies \ {HITSTUN_COURTESY} :
            ( /\ Handles(c.state)
              /\ AllOf(consumer.frames, c.state)
              /\ Len(consumer.frames) < c.timeout ) => DropsTail
    /\ (Handles("JumpSquat") /\ EndsAfterJump(consumer.frames)) =>
            /\ EmitsNothing
            /\ LastSquat(consumer.frames).character \in DOMAIN JUMP_VELOCITIES =>
                    consumer'.frames = <<>>
    /\ (Handles("Airdodge") /\ AllOf(consumer.frames, "Airdodge")) =>
            EmitsNothing /\ consumer'.frames = <<>>
C15_NoTruncatedAction == [][C15_Step]_vars

\* an Action was started at frame 0 on a Ground frame, the frames ended
\* inside the Ground window, and parse finished without an Action
C15_Witness ==
    /\ pc = "done"
    /\ actions = <<>>
    /\ consumer.frames = <<>>
    /\ consumer.action_init_data.some
    /\ consumer.action_init_data.val.action_start = 0
    /\ consumer.action_init_data.val.actionable_state = "Ground"
    /\ consumer.cur_frame = GROUND_COURTESY.timeout - 1

\* C16: when the JumpSquat handler runs for a character with no entry in
\* JUMP_VELOCITIES (id 26; the table has the ids 0..25), it takes the
\* JumpSquat frames and gives no Action; for every id 0..25 the jump is
\* classified Full or Short.
C16_Step ==
    LET fs == consumer.frames
        q == MatchLen(fs, "JumpSquat")
    IN  (Handles("JumpSquat") /\ Len(fs) > q) =>
            IF fs[q].character \in 0..25
            THEN /\ parse_jump_type(consumer).ret \in {Some("Full"), Some("Short")}
                 /\ parse_jump_type(consumer).ret = Some("Full") <=> fs[q].velocity.y > 0
                 /\ consumer'.cur_frame >= consumer.cur_frame + q
            ELSE /\ fs[q].character = 26
                 /\ parse_jump_type(consumer).ret = None
                 /\ EmitsNothing
                 /\ consumer'.frames = Drop(fs, q)
                 /\ consumer'.cur_frame = consumer.cur_frame + q
C16_NoCutoffNoAction == [][C16_Step]_vars

\* the JumpSquat run of character 26 has been taken without an Action, and
\* a full Air window is what follows
C16_Witness ==
    /\ pc = "while"
    /\ actions = <<>>
    /\ consumer.cur_frame = 1 + MaxSquat
    /\ consumer.action_init_data.some
    /\ consumer.action_init_data.val.action_start = 0
    /\ Len(consumer.frames) >= AIR_COURTESY.timeout
    /\ \A i \in DOMAIN consumer.frames :
            /\ consumer.frames[i].character = 26
            /\ broad_state(consumer.frames[i].state) = "Air"

\* C17: the u8 encoding of HighLevelAction is a bijection between the 64
\* variants and the codes 0..63: from_u8(into_u8(h)) = h for every h,
\* into_u8(from_u8(n)) = n for every n in 0..63, and from_u8(n) is None for
\* every n >= 64.
C17_CodecBijection ==
    /\ pc \in {"from_u8", "into_u8"} => Cardinality(HighLevelActions) = VARIANT_COUNT
    /\ pc = "decoded" =>
            IF ret.n >= 64
            THEN ret.hla = None
            ELSE /\ ret.hla.some
                 /\ ret.hla.val \in HighLevelActions
                 /\ ret.code = Some(ret.n)
    /\ pc = "encoded" =>
            /\ ret.code \in 0..63
            /\ ret.back = Some(ret.hla)

\* Hitstun, the last variant, has been encoded as 63 and decoded again
C17_Witness ==
    /\ pc = "encoded"
    /\ ret.hla = HLA("Hitstun")
    /\ ret.code = MAX_VALUE
    /\ ret.back = Some(HLA("Hitstun"))

\* ------------------------------------------------------------------------
\* Properties of the capped skip and of the wait Actions
\* ------------------------------------------------------------------------
\* C18: skip_while_at_most(pred, max) returns exactly the number of frames it
\* consumed: the cursor has advanced by the returned value, and that value is
\* the smaller of max and the number of frames at the cursor that satisfy
\* pred, also when the cap is reached. (Refuted: at the cap the loop is left
\* before self.next(), so max is returned with max - 1 frames consumed.)
C18_Step ==
    ("op" \in DOMAIN ret' /\ ret'.op = "skip_while_at_most") =>
        /\ ret'.val = Min(ret'.max, MatchLen(consumer.frames, ret'.state))
        /\ consumer'.cur_frame = consumer.cur_frame + ret'.val
        /\ consumer'.frames = Drop(consumer.frames, ret'.val)
C18_ReturnsConsumed == [][C18_Step]_vars

\* the wait Action of parse_courtesy for each of its four BroadStates
WaitCourtesy ==
    { [courtesy |-> AIR_COURTESY, wait |-> HLA("AirWait")],
      [courtesy |-> GROUND_COURTESY, wait |-> HLA("GroundWait")],
      [courtesy |-> SHIELD_COURTESY, wait |-> HLA("Shield")],
      [courtesy |-> CROUCH_COURTESY, wait |-> HLA("Crouch")] }
\* an Action has just been started at the cursor, on a frame of BroadState b
StartsOn(b) ==
    /\ Handles(b)
    /\ consumer.action_init_data.some
    /\ consumer.action_init_data.val.action_start = consumer.cur_frame

\* C19: for Air, Ground, Shield and Crouch, an Action that starts on a run of
\* at least timeout frames of the state (10 for Air, 5 for the others) gives
\* exactly one wait Action (AirWait, GroundWait, Shield, Crouch) from the
\* first frame of the run to the first frame after the whole run (or the
\* length of the array); a shorter run gives no wait Action.
C19_Step ==
    \A w \in WaitCourtesy :
        StartsOn(w.courtesy.state) =>
            LET run == MatchLen(consumer.frames, w.courtesy.state) IN
            IF run >= w.courtesy.timeout
            THEN /\ Emits(w.wait)
                 /\ actions'[Len(actions')].frame_start = consumer.cur_frame
                 /\ actions'[Len(actions')].frame_end = consumer.cur_frame + run
                 /\ consumer'.frames = Drop(consumer.frames, run)
            ELSE /\ actions' = actions
                 /\ pc' = "parse_next"
                 /\ consumer'.frames = Drop(consumer.frames, run)
C19_WaitAction == [][C19_Step]_vars

\* a Shield run of exactly 5 frames at the start of the array has given the
\* one Action Shield over the frames 0..5, and another frame follows
C19_Witness ==
    /\ pc = "while"
    /\ Len(actions) = 1
    /\ actions[1].action_taken = HLA("Shield")
    /\ actions[1].frame_start = 0
    /\ actions[1].frame_end = SHIELD_COURTESY.timeout
    /\ consumer.cur_frame = SHIELD_COURTESY.timeout
    /\ consumer.frames # <<>>
    /\ broad_state(Head(consumer.frames).state) # "Shield"

\* C20: an Action that starts on a run of at least 15 Ledge frames gives
\* exactly one LedgeWait Action that takes the whole Ledge run: frame_end is
\* the first frame that is not Ledge, or the length of the array. (Refuted:
\* parse_ledge finishes the Action where the capped skip stops, on the 15th
\* Ledge frame, and the rest of the run starts another Action.)
C20_Step ==
    LET run == MatchLen(consumer.frames, "Ledge") IN
    (StartsOn("Ledge") /\ run >= LEDGE_COURTESY.timeout) =>
        /\ Emits(HLA("LedgeWait"))
        /\ actions'[Len(actions')].frame_start = consumer.cur_frame
        /\ actions'[Len(actions')].frame_end = consumer.cur_frame + run
        /\ consumer'.frames = Drop(consumer.frames, run)
C20_LedgeWaitWholeRun == [][C20_Step]_vars

\* ------------------------------------------------------------------------
\* Properties of the branches the handlers take after a window that ends early
\* ------------------------------------------------------------------------
\* the AirJump handler is about to run, its window ends before the timeout
\* (the frames of the run after the first are fewer than 10), and a frame
\* follows the run
AirJumpEarly ==
    /\ Handles("AirJump")
    /\ MatchLen(consumer.frames, "AirJump") - 1 < AIRJUMP_COURTESY.timeout
    /\ Len(consumer.frames) > MatchLen(consumer.frames, "AirJump")
\* the frame after the AirJump run at the cursor
AfterAirJump == consumer.frames[MatchLen(consumer.frames, "AirJump") + 1]
\* what the AirJump handler gives after an early window when the next frame
\* is an Attack frame: JumpAerial(kind) for an air attack, nothing for a
\* ground attack
AirJumpAttack ==
    (AirJumpEarly /\ broad_state(AfterAirJump.state) = "Attack") =>
        IF attack_type(AfterAirJump.state).val.kind = "AirAttack"
        THEN Emits(HLAat("JumpAerial", attack_type(AfterAirJump.state).val.at))
        ELSE EmitsNothing

\* C21 as stated: after an early AirJump window only a following air attack
\* gives an Action, JumpAerial(kind); any other following BroadState, and a
\* following ground attack, gives no Action.
C21_Step_OtherNone ==
    /\ AirJumpAttack
    /\ (AirJumpEarly /\ broad_state(AfterAirJump.state) # "Attack") => EmitsNothing
C21_OtherStateNoAction == [][C21_Step_OtherNone]_vars

\* C21 (amended): after an early AirJump window a following air attack gives
\* JumpAerial(kind) and a following ground attack gives no Action; any other
\* following BroadState gives the plain AirJump Action.
C21_Step ==
    /\ AirJumpAttack
    /\ (AirJumpEarly /\ broad_state(AfterAirJump.state) # "Attack") =>
            /\ Emits(HLA("AirJump"))
            /\ actions'[Len(actions')].frame_end =
                    consumer.cur_frame + MatchLen(consumer.frames, "AirJump")
C21_OtherStateAirJump == [][C21_Step]_vars

\* an AirJump run inside the window, followed by a Ground frame, has given
\* the Action AirJump
C21_Witness ==
    /\ pc = "while"
    /\ Len(actions) = 1
    /\ actions[1].action_taken = HLA("AirJump")
    /\ actions[1].frame_start = 0
    /\ actions[1].frame_end = consumer.cur_frame
    /\ consumer.cur_frame <= AIRJUMP_COURTESY.timeout
    /\ consumer.frames # <<>>
    /\ broad_state(Head(consumer.frames).state) = "Ground"

\* the number of frames at the head of fs that are not Hitstun
NonHitLen(fs) ==
    IF \A i \in 1..Len(fs) : broad_state(fs[i].state) # "Hitstun"
    THEN Len(fs)
    ELSE (CHOOSE i \in 1..Len(fs) :
            /\ broad_state(fs[i].state) = "Hitstun"
            /\ \A j \in 1..(i - 1) : broad_state(fs[j].state) # "Hitstun") - 1
\* the first Hitstun run of fs, the gap after it, and the second Hitstun run
FirstRun(fs) == MatchLen(fs, "Hitstun")
GapLen(fs) == NonHitLen(Drop(fs, FirstRun(fs)))
SecondRun(fs) == MatchLen(Drop(fs, FirstRun(fs) + GapLen(fs)), "Hitstun")
\* the Hitstun handler is about to run on a Hitstun run, a gap, and a return
\* to Hitstun
HitstunReturns ==
    /\ Handles("Hitstun")
    /\ GapLen(consumer.frames) >= 1
    /\ SecondRun(consumer.frames) >= 1
\* every frame of the gap is an Air frame
AirGap(fs) == MatchLen(Drop(fs, FirstRun(fs)), "Air") = GapLen(fs)
\* the one Hitstun Action covers both runs and the gap
CoversBothRuns ==
    /\ Emits(HLA("Hitstun"))
    /\ actions'[Len(actions')].frame_end >=
          consumer.cur_frame + FirstRun(consumer.frames) + GapLen(consumer.frames)
            + SecondRun(consumer.frames)
    /\ actions'[Len(actions')].frame_end = consumer'.cur_frame
\* the Hitstun Action ends at the end of the first run, the cursor with it
EndsAtFirstRun ==
    /\ Emits(HLA("Hitstun"))
    /\ actions'[Len(actions')].frame_end = consumer.cur_frame + FirstRun(consumer.frames)
    /\ consumer'.cur_frame = consumer.cur_frame + FirstRun(consumer.frames)

\* C22 as stated: a gap of 1..5 frames between two Hitstun runs is absorbed
\* and the one Hitstun Action covers both runs and the gap; a gap of 6 or
\* more frames ends the Action at the end of the first run.
C22_Step_UpTo5 ==
    HitstunReturns =>
        IF GapLen(consumer.frames) <= 5 THEN CoversBothRuns ELSE EndsAtFirstRun
C22_GapUpTo5Absorbed == [][C22_Step_UpTo5]_vars

\* C22 (amended): a gap of 1..4 Air frames between two Hitstun runs is
\* absorbed and the one Hitstun Action covers both runs and the gap; a gap
\* of 5 or more Air frames ends the Action at the end of the first run.
C22_Step ==
    (HitstunReturns /\ AirGap(consumer.frames)) =>
        IF GapLen(consumer.frames) <= 4 THEN CoversBothRuns ELSE EndsAtFirstRun
C22_AirGapUpTo4Absorbed == [][C22_Step]_vars

\* a Hitstun run, 4 Air frames and a second Hitstun run have given one
\* Hitstun Action, and a Ground frame is next
C22_Witness ==
    /\ pc = "while"
    /\ Len(actions) = 1
    /\ actions[1].action_taken = HLA("Hitstun")
    /\ actions[1].frame_start = 0
    /\ actions[1].frame_end = 1 + MaxHit + 4 + MaxHit
    /\ consumer.cur_frame = 1 + MaxHit + 4 + MaxHit
    /\ consumer.frames # <<>>
    /\ broad_state(Head(consumer.frames).state) = "Ground"

\* C23: a gap is taken into the Hitstun Action only when Hitstun returns
\* after it: when no Hitstun frame follows the Hitstun run, the Action's
\* frame_end is the first frame after the run and the cursor is left there.
\* (Refuted: fewer than 5 Air frames after the run, followed by a frame of
\* another state, are skipped before the handler looks for Hitstun, and the
\* Action ends after them.)
C23_Step ==
    ( /\ Handles("Hitstun")
      /\ GapLen(consumer.frames) = Len(consumer.frames) - FirstRun(consumer.frames) )
    => EndsAtFirstRun
C23_NoReturnNoGap == [][C23_Step]_vars

\* HighLevelAction of parse_attack for the attack_type of a raw state
AttackAction(state) ==
    IF attack_type(state).val.kind = "AirAttack"
    THEN HLAat("Aerial", attack_type(state).val.at)
    ELSE HLAat("GroundAttack", attack_type(state).val.at)

\* C24: the Attack handler classifies the move by the attack_type of the
\* first Attack frame, takes the whole run of Attack frames, also when the
\* raw state changes inside the run, and gives one Action, GroundAttack(kind)
\* or Aerial(kind), that ends at the first frame that is not Attack or at the
\* length of the array.
C24_Step ==
    Handles("Attack") =>
        LET run == MatchLen(consumer.frames, "Attack") IN
        /\ Emits(AttackAction(consumer.frames[1].state))
        /\ actions'[Len(actions')].frame_end = consumer.cur_frame + run
        /\ consumer'.cur_frame = consumer.cur_frame + run
        /\ consumer'.frames = Drop(consumer.frames, run)
C24_AttackWholeRun == [][C24_Step]_vars

\* an Attack run that starts as a jab and changes its raw state has given
\* one GroundAttack(Jab) over the whole run, and an Air frame is next
C24_Witness ==
    /\ pc = "while"
    /\ Len(actions) = 1
    /\ actions[1].action_taken = HLAat("GroundAttack", "Jab")
    /\ actions[1].frame_start = 0
    /\ actions[1].frame_end = 1 + MaxAttack + MaxAttack
    /\ consumer.cur_frame = 1 + MaxAttack + MaxAttack
    /\ consumer.frames # <<>>
    /\ broad_state(Head(consumer.frames).state) = "Air"

\* WalkLeft or WalkRight, DashLeft or DashRight, by the direction of a frame
Directed(move, frame) == HLA(move \o frame.direction)

\* C25: Walk and DashRun are gated by their own timeouts, counted over the
\* run that starts the Action: a Walk run of at least 5 frames gives WalkLeft
\* or WalkRight and a DashRun run of at least 3 frames gives DashLeft or
\* DashRight, by the direction of the first frame of the run, and the Action
\* takes the whole run; a shorter run re-dispatches on the state that
\* follows. (Refuted: the first frame is consumed before the window is
\* counted, so a Walk run of exactly 5 frames and a DashRun run of exactly 3
\* frames re-dispatch.)
C25_Step ==
    \A g \in { [courtesy |-> WALK_COURTESY, move |-> "Walk"],
               [courtesy |-> DASH_COURTESY, move |-> "Dash"] } :
        StartsOn(g.courtesy.state) =>
            LET run == MatchLen(consumer.frames, g.courtesy.state) IN
            IF run >= g.courtesy.timeout
            THEN /\ Emits(Directed(g.move, consumer.frames[1]))
                 /\ actions'[Len(actions')].frame_start = consumer.cur_frame
                 /\ actions'[Len(actions')].frame_end = consumer.cur_frame + run
            ELSE /\ actions' = actions
                 /\ pc' = "parse_next"
                 /\ consumer'.frames = Drop(consumer.frames, run)
C25_WalkDashGated == [][C25_Step]_vars

\* the cursor n frames further on
Ahead(n) == [consumer EXCEPT !.frames = Drop(@, n), !.cur_frame = @ + n]
\* the step ends as the handler result r does: its cursor, and its Action if
\* it has one
HandsOver(r) ==
    /\ r.k = "return"
    /\ consumer' = r.c
    /\ pc' = "while"
    /\ actions' = IF r.ret.some THEN Append(actions, r.ret.val) ELSE actions
\* the step gives the one Action hla, ending n frames after the cursor
EmitsUpTo(hla, n) ==
    /\ Emits(hla)
    /\ actions'[Len(actions')].frame_end = consumer.cur_frame + n
    /\ consumer'.cur_frame = consumer.cur_frame + n
\* the JumpSquat run at the cursor and the Air frames after it
SquatLen == MatchLen(consumer.frames, "JumpSquat")
AirLen == MatchLen(Drop(consumer.frames, SquatLen), "Air")
AfterJump == Drop(consumer.frames, SquatLen + AirLen)
\* Fullhop or Shorthop, by the last JumpSquat frame
Hop ==
    IF LastSquat(consumer.frames).velocity.y
          > JUMP_VELOCITIES[LastSquat(consumer.frames).character]
    THEN "Fullhop" ELSE "Shorthop"
\* the JumpSquat handler is about to run, the Air window after the jump ends
\* early and a frame follows it
JumpEarly ==
    /\ Handles("JumpSquat")
    /\ LastSquat(consumer.frames).character \in DOMAIN JUMP_VELOCITIES
    /\ AirLen < AIR_COURTESY.timeout
    /\ AfterJump # <<>>
\* the branches of the JumpSquat handler other than Attack
JumpEarlyOther ==
    LET b == broad_state(AfterJump[1].state)
        d == MatchLen(AfterJump, "Airdodge")
    IN  CASE b = "Attack" -> TRUE
          [] b = "AirJump" -> HandsOver(parse_air_jump(Ahead(SquatLen + AirLen)))
          [] b \in {"Airdodge", "SpecialLanding"} ->
                IF Len(AfterJump) = d THEN EmitsNothing
                ELSE Emits(DodgeResult(AfterJump, "WavedashLeft", "WavedashRight", "WavedashDown"))
          [] b = "Grab" ->
                EmitsUpTo(HLA("Grab"), SquatLen + AirLen + MatchLen(AfterJump, "Grab"))
          [] OTHER -> EmitsUpTo(HLA(Hop), SquatLen + AirLen)

\* C26 as stated: after an early Air window the JumpSquat handler chooses by
\* the next BroadState: Attack gives FullhopAerial(kind) or
\* ShorthopAerial(kind) by the jump type; AirJump hands over to the air-jump
\* handling; Airdodge or SpecialLanding to the airdodge handling with
\* Waveland renamed to Wavedash; Grab gives Grab; every other state gives the
\* plain Fullhop or Shorthop.
C26_Step_AttackAerial ==
    JumpEarly =>
        /\ JumpEarlyOther
        /\ broad_state(AfterJump[1].state) = "Attack" =>
              EmitsUpTo(HLAat(Hop \o "Aerial", attack_type(AfterJump[1].state).val.at),
                        SquatLen + AirLen + MatchLen(AfterJump, "Attack"))
C26_AttackAlwaysAerial == [][C26_Step_AttackAerial]_vars

\* C26 (amended): as stated, except that Attack gives FullhopAerial(kind) or
\* ShorthopAerial(kind) for an air attack only, and GroundAttack(kind) for a
\* ground attack.
C26_Step ==
    JumpEarly =>
        /\ JumpEarlyOther
        /\ broad_state(AfterJump[1].state) = "Attack" =>
              EmitsUpTo(IF attack_type(AfterJump[1].state).val.kind = "AirAttack"
                        THEN HLAat(Hop \o "Aerial", attack_type(AfterJump[1].state).val.at)
                        ELSE HLAat("GroundAttack", attack_type(AfterJump[1].state).val.at),
                        SquatLen + AirLen + MatchLen(AfterJump, "Attack"))
C26_JumpBranches == [][C26_Step]_vars

\* a short jump, an Air window that ended early and an air attack have given
\* one ShorthopAerial(Nair)
C26_Witness ==
    /\ pc = "while"
    /\ Len(actions) = 1
    /\ actions[1].action_taken = HLAat("ShorthopAerial", "Nair")
    /\ actions[1].frame_start = 0
    /\ actions[1].frame_end = consumer.cur_frame
    /\ consumer.cur_frame > 3

\* the Ledge run at the cursor, the Air frames after it, the AirJump run
\* after them, and what follows
LedgeLen == MatchLen(consumer.frames, "Ledge")
DropLen == MatchLen(Drop(consumer.frames, LedgeLen), "Air")
HopLen == MatchLen(Drop(consumer.frames, LedgeLen + DropLen), "AirJump")
AfterHop == Drop(consumer.frames, LedgeLen + DropLen + HopLen)
\* an Action starts on a Ledge run shorter than 15 frames, followed by Air
LedgeThenAir ==
    /\ StartsOn("Ledge")
    /\ LedgeLen < LEDGE_COURTESY.timeout
    /\ DropLen >= 1
\* the Air window ends early on an AirJump frame
EarlyAirJump ==
    /\ LedgeThenAir
    /\ DropLen < AIR_COURTESY.timeout
    /\ HopLen >= 1
\* the step gives the one Action hla, started at the first Ledge frame
EmitsFromLedge(hla) ==
    /\ Emits(hla)
    /\ actions'[Len(actions')].frame_start = consumer.cur_frame
    /\ actions'[Len(actions')].actionable_state = "Ledge"
    /\ actions'[Len(actions')].frame_end = consumer'.cur_frame

\* C27: in the Ledge handler, for a Ledge run shorter than 15 frames followed
\* by Air, a full Air window of 10 frames gives LedgeDrop; an early AirJump
\* with a full AirJump window gives LedgeHop; an early AirJump followed by an
\* Airdodge that ends in SpecialLanding, or by SpecialLanding, gives
\* LedgeDash; followed by an air attack it gives LedgeAerial(kind); each time
\* one Action that starts at the first Ledge frame.
C27_Step ==
    /\ (LedgeThenAir /\ DropLen >= AIR_COURTESY.timeout) => EmitsFromLedge(HLA("LedgeDrop"))
    /\ (EarlyAirJump /\ HopLen - 1 >= AIRJUMP_COURTESY.timeout) =>
            /\ EmitsFromLedge(HLA("LedgeHop"))
            /\ consumer'.frames = AfterHop
    /\ (EarlyAirJump /\ HopLen - 1 < AIRJUMP_COURTESY.timeout /\ AfterHop # <<>>) =>
            LET b == broad_state(AfterHop[1].state)
                d == MatchLen(AfterHop, "Airdodge")
            IN  /\ ( /\ b = "Airdodge"
                     /\ Len(AfterHop) > d
                     /\ broad_state(AfterHop[d + 1].state) = "SpecialLanding" )
                   => EmitsFromLedge(HLA("LedgeDash"))
                /\ b = "SpecialLanding" => EmitsFromLedge(HLA("LedgeDash"))
                /\ (b = "Attack" /\ attack_type(AfterHop[1].state).val.kind = "AirAttack")
                   => EmitsFromLedge(HLAat("LedgeAerial", attack_type(AfterHop[1].state).val.at))
C27_LedgeBranches == [][C27_Step]_vars

\* a hang, a drop, an AirJump and an Airdodge that landed have given one
\* LedgeDash from the first Ledge frame on
C27_Witness ==
    /\ pc = "while"
    /\ Len(actions) = 1
    /\ actions[1].action_taken = HLA("LedgeDash")
    /\ actions[1].frame_start = 0
    /\ actions[1].actionable_state = "Ledge"
    /\ actions[1].frame_end = consumer.cur_frame
    /\ consumer.cur_frame >= 5

\* C28: the direction of a waveland has an inclusive dead zone of 0.1: the
\* horizontal velocity x of the first SpecialLanding frame after the Airdodge
\* run gives WavelandLeft iff x < -0.1, WavelandRight iff x > 0.1, and
\* WavelandDown for every x with -0.1 <= x <= 0.1, the two bounds included.
\* (Velocities are in tenths: 1 is 0.1.)
C28_Step ==
    LET fs == consumer.frames
        d == MatchLen(fs, "Airdodge")
    IN  ( /\ Handles("Airdodge")
          /\ Len(fs) > d
          /\ broad_state(fs[d + 1].state) = "SpecialLanding" )
        => /\ Emits(HLA("WavelandLeft")) <=> fs[d + 1].velocity.x < -1
           /\ Emits(HLA("WavelandRight")) <=> fs[d + 1].velocity.x > 1
           /\ Emits(HLA("WavelandDown")) <=>
                (-1 <= fs[d + 1].velocity.x /\ fs[d + 1].velocity.x <= 1)
C28_WavelandDeadZone == [][C28_Step]_vars

\* a landing with exactly 0.1 has given WavelandDown, though the Airdodge
\* frame before it moved the other way by 2.0
C28_Witness ==
    /\ pc = "while"
    /\ Len(actions) = 1
    /\ actions[1].action_taken = HLA("WavelandDown")
    /\ actions[1].frame_start = 0
    /\ actions[1].initial_velocity.x = 1
    /\ actions[1].frame_end = consumer.cur_frame
    /\ consumer.cur_frame >= 3


\* the first frame with an actionable_state, where parse starts an action
FirstActionable(fs) ==
    CHOOSE i \in 1..Len(fs) :
        /\ actionable_state(fs[i].state) # None
        /\ \A j \in 1..(i - 1) : actionable_state(fs[j].state) = None
\* C29: when a courtesy window ends early and the handler dispatches again on
\* the new state, the Action finally emitted keeps the origin that
\* start_action took before the courtesy frames: start_action snapshots the
\* first courtesy frame (its index, position, velocity and actionable state),
\* dispatching again consumes frames and leaves the snapshot alone, and the
\* Action emitted has frame_start, initial_position, initial_velocity and
\* actionable_state of the snapshot; so the position recorded in every Action
\* is that of the frame at its frame_start (the x of a frame is its index).
C29_Step ==
    LET fs == consumer.frames
        snap == consumer.action_init_data
    IN  /\ (pc = "while" /\ pc' = "parse_next") =>
              consumer'.action_init_data =
                  Some([action_start |-> consumer.cur_frame + FirstActionable(fs) - 1,
                        actionable_state |-> actionable_state(fs[FirstActionable(fs)].state).val,
                        position |-> fs[FirstActionable(fs)].position,
                        velocity |-> fs[FirstActionable(fs)].velocity])
        /\ (pc = "parse_next" /\ pc' = "parse_next") =>
              /\ consumer'.action_init_data = snap
              /\ consumer'.cur_frame > consumer.cur_frame
        /\ (pc = "parse_next" /\ Len(actions') = Len(actions) + 1) =>
              /\ snap.some
              /\ actions'[Len(actions')].frame_start = snap.val.action_start
              /\ actions'[Len(actions')].initial_position = snap.val.position
              /\ actions'[Len(actions')].initial_velocity = snap.val.velocity
              /\ actions'[Len(actions')].actionable_state = snap.val.actionable_state
        /\ \A k \in 1..Len(actions') :
              actions'[k].initial_position.x = actions'[k].frame_start
C29_OriginKept == [][C29_Step]_vars

\* Ground frames and then an Attack run have given one GroundAttack Action
\* from the first Ground frame to the end of the Attack run
C29_Witness ==
    /\ pc = "while"
    /\ consumer.frames = <<>>
    /\ Len(actions) = 1
    /\ actions[1].action_taken = AttackAction(Attack11)
    /\ actions[1].actionable_state = actionable_state(Wait).val
    /\ actions[1].frame_start = 0
    /\ actions[1].initial_position.x = 0
    /\ actions[1].frame_end = 4


\* the BroadStates that C30 names, none of which has an actionable_state
InactionableRuns ==
    {"Attack", "JumpSquat", "Hitstun", "Airdodge", "Grab", "Roll", "Spotdodge", "LedgeAction"}
\* the number of frames at the cursor that have no actionable_state
LeadingInactionable(fs) ==
    IF \A i \in 1..Len(fs) : actionable_state(fs[i].state) = None
    THEN Len(fs)
    ELSE FirstActionable(fs) - 1
\* the window of the handler that dispatches again on BroadState b; parse_walk
\* and parse_dash take one frame before their window
RedispatchWindow(b) ==
    CASE b = "Air" -> AIR_COURTESY.timeout
      [] b = "Ground" -> GROUND_COURTESY.timeout
      [] b = "Shield" -> SHIELD_COURTESY.timeout
      [] b = "Crouch" -> CROUCH_COURTESY.timeout
      [] b = "Walk" -> WALK_COURTESY.timeout + 1
      [] b = "DashRun" -> DASH_COURTESY.timeout + 1
\* C30: a run of a BroadState without an actionable_state (Attack, JumpSquat,
\* Hitstun, Airdodge, Grab, Roll, Spotdodge, LedgeAction) becomes an Action
\* only when it is reached from a courtesy window that ended early: the
\* top-level loop skips every such frame at the cursor and emits nothing, a
\* handler of such a state runs only behind frames the started action has
\* already consumed, its Action starts on that earlier frame, and parse_next
\* is entered again only by a courtesy handler whose run ended inside its
\* window.
C30_Step ==
    LET fs == consumer.frames
        snap == consumer.action_init_data
        b == broad_state(peek(consumer).val)
    IN  /\ pc = "while" =>
              /\ actions' = actions
              /\ consumer'.frames = Drop(fs, LeadingInactionable(fs))
              /\ consumer'.cur_frame = consumer.cur_frame + LeadingInactionable(fs)
        /\ (pc = "parse_next" /\ peek(consumer).some /\ b \in InactionableRuns) =>
              /\ actionable_state(peek(consumer).val) = None
              /\ snap.some
              /\ snap.val.action_start < consumer.cur_frame
              /\ Len(actions') > Len(actions) =>
                    actions'[Len(actions')].frame_start = snap.val.action_start
        /\ (pc = "parse_next" /\ pc' = "parse_next") =>
              /\ b \in {"Air", "Ground", "Shield", "Crouch", "Walk", "DashRun"}
              /\ MatchLen(fs, b) < RedispatchWindow(b)
              /\ consumer'.frames = Drop(fs, MatchLen(fs, b))
C30_InactionableRuns == [][C30_Step]_vars

\* a Ground run that filled its window has given GroundWait, and the run
\* after it, of a state without an actionable_state, was skipped: the cursor
\* is at the end, past the end of the only Action
C30_Witness ==
    /\ pc = "done"
    /\ consumer.frames = <<>>
    /\ Len(actions) = 1
    /\ actions[1].action_taken = HLA("GroundWait")
    /\ actions[1].initial_velocity.x = 3
    /\ actions[1].frame_start = 0
    /\ actions[1].frame_end = GROUND_COURTESY.timeout + 1
    /\ consumer.cur_frame = actions[1].frame_end + MaxShort


\* a raw state on which an Action may start
StartEligible(st) ==
    /\ \/ broad_state(st) \in {"Air", "Ground", "Walk", "DashRun", "Shield", "AirJump", "Crouch"}
       \/ st = CliffWait
    /\ broad_state(st) \notin {"Attack", "Hitstun", "GenericInactionable"}
    /\ st # CliffCatch
\* C31: every Action emitted by parse has its frame_start at a frame whose
\* actionable_state is defined (BroadState Air, Ground, Walk, DashRun, Shield,
\* AirJump or Crouch, or the CliffWait state), never at an attack, hitstun,
\* CliffCatch or GenericInactionable frame: start_action is taken with the
\* cursor on such a frame and records the cursor's index, the record is there
\* whenever parse_next runs, and an emitted Action starts at the recorded
\* index.
C31_Step ==
    LET snap == consumer.action_init_data
    IN  /\ (pc = "while" /\ pc' = "parse_next") =>
              /\ consumer'.frames # <<>>
              /\ StartEligible(Head(consumer'.frames).state)
              /\ consumer'.action_init_data.some
              /\ consumer'.action_init_data.val.action_start = consumer'.cur_frame
              /\ consumer'.action_init_data.val.position = Head(consumer'.frames).position
        /\ pc = "parse_next" =>
              /\ snap.some
              /\ snap.val.position.x = snap.val.action_start
              /\ pc' = "parse_next" => consumer'.action_init_data = snap
              /\ Len(actions') > Len(actions) =>
                    /\ actions'[Len(actions')].frame_start = snap.val.action_start
                    /\ actions'[Len(actions')].actionable_state \in
                          {"Air", "Ground", "Run", "Dash", "Shield", "Ledge"}
C31_StartsActionable == [][C31_Step]_vars

\* two frames without an actionable_state were passed over and a LedgeWait
\* Action starts on the CliffWait frame after them
C31_Witness ==
    /\ Len(actions) = 1
    /\ actions[1].action_taken = HLA("LedgeWait")
    /\ actions[1].actionable_state = "Ledge"
    /\ actions[1].frame_start = 2
    /\ actions[1].initial_position.x = 2


\* C32: on ascending inputs the frame_start values interleave strictly along
\* the list of pairs: the response of a pair starts before the initiation of
\* the next pair, which starts before the response of the next pair; so each
\* opponent Action and each player Action is in at most one pair, and there
\* are at most min(number of opponent Actions, number of player Actions)
\* pairs.
C32_Interleaved ==
    AscendingInput =>
        /\ \A k \in 1..(Len(interactions) - 1) :
            /\ PairStarts[k][2] < PairStarts[k + 1][1]
            /\ PairStarts[k + 1][1] < PairStarts[k + 1][2]
        /\ \A k, l \in 1..Len(interactions) :
            k # l => /\ interactions[k].player_response # interactions[l].player_response
                     /\ interactions[k].opponent_initiation # interactions[l].opponent_initiation
        /\ Len(interactions) <= Min(Len(gi_input.opponent), Len(gi_input.player))

\* three pairs from four Actions a side: Actions of both sides were passed
\* over between the pairs
C32_Witness ==
    /\ gi_pc = "done"
    /\ AscendingInput
    /\ Len(gi_input.opponent) = 4
    /\ Len(gi_input.player) = 4
    /\ Len(interactions) = 3
    /\ interactions[3].opponent_initiation = 4
    /\ interactions[2].player_response = 3


\* C33: generate_interactions terminates on every pair of finite inputs,
\* sorted or not: no step moves the initiation or the response pointer
\* backwards or lengthens a slice, every step that takes an element shortens
\* its slice by one, each round of the outer loop has advanced the initiation
\* past that of the pair pushed in the round, and the function returns.
C33_Step ==
    /\ initiation' >= initiation
    /\ response' >= response
    /\ Len(opponent_actions') <= Len(opponent_actions)
    /\ Len(player_actions') <= Len(player_actions)
    /\ initiation' # initiation =>
          initiation' > initiation /\ Len(opponent_actions') = Len(opponent_actions) - 1
    /\ response' # response =>
          response' > response /\ Len(player_actions') = Len(player_actions) - 1
    /\ (gi_pc = "initiation" /\ gi_pc' = "response") =>
          initiation > interactions[Len(interactions)].opponent_initiation
C33_Terminates ==
    /\ [][C33_Step]_vars
    /\ <>(gi_pc = "done")

\* the function has returned on inputs that are not ascending, after a round
\* of the outer loop that pushed a pair and advanced both pointers past it
C33_Witness ==
    /\ gi_pc = "done"
    /\ ~AscendingInput
    /\ Len(interactions) = 1
    /\ initiation > interactions[1].opponent_initiation
    /\ response > interactions[1].player_response


\* C34: when dispatch, after a courtesy window that ended early, lands on a
\* SpecialLanding or GenericInactionable frame, the whole run of that
\* BroadState is consumed and no Action is emitted for it; the courtesy
\* frames before it are covered by no Action either: the Actions emitted so
\* far end no later than the frame the courtesy began on, and the Action
\* started next begins at or after the end of the run.
C34_Step ==
    LET fs == consumer.frames
        snap == consumer.action_init_data
        b == broad_state(peek(consumer).val)
    IN  /\ (pc = "parse_next" /\ peek(consumer).some
              /\ b \in {"SpecialLanding", "GenericInactionable"}) =>
              /\ snap.val.action_start < consumer.cur_frame
              /\ EmitsNothing
              /\ consumer'.frames = Drop(fs, MatchLen(fs, b))
              /\ consumer'.cur_frame = consumer.cur_frame + MatchLen(fs, b)
              /\ \A k \in 1..Len(actions') : actions'[k].frame_end <= snap.val.action_start
        /\ consumer'.action_init_data # snap =>
              consumer'.action_init_data.val.action_start >= consumer.cur_frame
C34_GapNoAction == [][C34_Step]_vars

\* two Ground frames and two frames of a SpecialLanding or GenericInactionable
\* run have been passed and parse has returned no Action
C34_Witness ==
    /\ pc = "done"
    /\ actions = <<>>
    /\ consumer.frames = <<>>
    /\ consumer.cur_frame = 2 * MaxShort
    /\ consumer.action_init_data.some
    /\ consumer.action_init_data.val.action_start = 0
    /\ consumer.action_init_data.val.velocity.x = 4


\* C35: in every execution of parse, finish_action is reached only after
\* start_action has stored a snapshot, and the unwrap on next_frame in the
\* Walk, DashRun and Airdodge handlers is reached only with a frame left at
\* the cursor: the snapshot is there whenever parse_next runs, the frame is
\* there whenever one of the three handlers takes it, and a step that fails
\* does so for neither reason.
C35_Step ==
    LET b == broad_state(peek(consumer).val)
        landed == skip_broad_state(consumer, "Airdodge")
    IN  /\ pc = "parse_next" => consumer.action_init_data.some
        /\ pc' = "parse_next" => consumer'.action_init_data.some
        /\ (Handles("Walk") \/ Handles("DashRun")) => next_frame(consumer).ret.some
        /\ ( /\ Handles("Airdodge")
             /\ peek(landed).some
             /\ broad_state(peek(landed).val) = "SpecialLanding" )
              => next_frame(landed).ret.some
        /\ (pc = "parse_next" /\ peek(consumer).some /\ pc' = "panic") =>
              parse_next_arm(consumer, b).ret.panic
                  \notin {"finished action without starting", "unwrap on None"}
C35_NoContractViolation == [][C35_Step]_vars

\* the Walk and the DashRun handler have each taken their frame and finished
\* an Action
C35_Witness ==
    /\ pc = "done"
    /\ Len(actions) = 2
    /\ actions[1].action_taken = HLA("WalkLeft")
    /\ actions[2].action_taken = HLA("DashRight")


\* C36: the Roll handler emits RollForward when the first Roll frame is
\* EscapeF and RollBackward when it is EscapeB, consumes the whole run of Roll
\* frames, and sets frame_end to the index of the first frame that is not
\* Roll, or to the length of the array.
C36_Step ==
    LET fs == consumer.frames
        n == MatchLen(fs, "Roll")
    IN  Handles("Roll") =>
            /\ fs[1].state \in {EscapeF, EscapeB}
            /\ fs[1].state = EscapeF => EmitsUpTo(HLA("RollForward"), n)
            /\ fs[1].state = EscapeB => EmitsUpTo(HLA("RollBackward"), n)
            /\ consumer'.frames = Drop(fs, n)
            /\ consumer'.frames # <<>> => broad_state(consumer'.frames[1].state) # "Roll"
            /\ actions'[Len(actions')].frame_start = consumer.action_init_data.val.action_start
C36_RollDirection == [][C36_Step]_vars

\* a Ground frame and four Roll frames have given one RollBackward Action
\* that ends at the Ground frame after the run
C36_Witness ==
    /\ pc = "while"
    /\ Len(actions) = 1
    /\ actions[1].action_taken = HLA("RollBackward")
    /\ actions[1].frame_start = 0
    /\ actions[1].frame_end = 1 + 2 * MaxShort
    /\ consumer.cur_frame = 1 + 2 * MaxShort
    /\ consumer.frames # <<>>
    /\ consumer.frames[1].state = Wait


\* C37: the cursor's non-consuming operations leave it unchanged: finished,
\* peek, peek_frame and peek_n(k) change neither the index nor the remaining
\* frames; peek_n(k) yields the states of the next min(k, remaining) frames in
\* order; next and next_frame advance the index by exactly one and take the
\* first frame when a frame remains, and leave the cursor unchanged at the end.
C37_Step ==
    LET fs == consumer.frames IN
    /\ ret'.op \in {"finished", "peek", "peek_frame", "peek_n"} => consumer' = consumer
    /\ ret'.op = "finished" => (ret'.val <=> fs = <<>>)
    /\ ret'.op = "peek" =>
          ret'.val = IF fs = <<>> THEN None ELSE Some(fs[1].state)
    /\ ret'.op = "peek_frame" =>
          ret'.val = IF fs = <<>> THEN None ELSE Some(fs[1])
    /\ ret'.op = "peek_n" =>
          /\ Len(ret'.val) = IF ret'.n <= Len(fs) THEN ret'.n ELSE Len(fs)
          /\ \A i \in 1..Len(ret'.val) : ret'.val[i] = fs[i].state
    /\ ret'.op \in {"next", "next_frame"} =>
          IF fs = <<>>
          THEN consumer' = consumer /\ ret'.val = None
          ELSE /\ consumer'.cur_frame = consumer.cur_frame + 1
               /\ consumer'.frames = Drop(fs, 1)
               /\ consumer'.action_init_data = consumer.action_init_data
               /\ ret'.val = Some(IF ret'.op = "next" THEN fs[1].state ELSE fs[1])
C37_PeeksDoNotConsume == [][C37_Step]_vars

\* peek_n was asked for more states than remain, after frames had been
\* taken, and gave the states of the frames left, of two BroadStates
C37_Witness ==
    /\ pc = "cursor"
    /\ "op" \in DOMAIN ret
    /\ ret.op = "peek_n"
    /\ consumer.cur_frame >= 2
    /\ ret.n > Len(consumer.frames)
    /\ Len(ret.val) = Len(consumer.frames)
    /\ Len(ret.val) >= 2
    /\ ret.val[1] # ret.val[Len(ret.val)]


\* C38: after skip_while(pred), and skip_broad_state(b), the cursor is at the
\* first unconsumed frame whose state fails pred, or at the end; every frame
\* the call consumed satisfied pred, and no frame failing pred is consumed.
C38_Step ==
    LET fs == consumer.frames
        n == Len(fs) - Len(consumer'.frames)
    IN  ret'.op \in {"skip_while", "skip_broad_state"} =>
            /\ n >= 0
            /\ consumer'.frames = Drop(fs, n)
            /\ consumer'.cur_frame = consumer.cur_frame + n
            /\ consumer'.action_init_data = consumer.action_init_data
            /\ \A i \in 1..n : Call(ret'.pred, fs[i].state)
            /\ consumer'.frames # <<>> => ~Call(ret'.pred, consumer'.frames[1].state)
C38_SkipWhileStops == [][C38_Step]_vars

\* skip_broad_state has consumed a whole run of Ground frames and stopped at
\* the first frame of the run after it, which is left whole
C38_Witness ==
    /\ pc = "cursor"
    /\ "op" \in DOMAIN ret
    /\ ret.op = "skip_broad_state"
    /\ ret.pred = InBroadState("Ground")
    /\ consumer.cur_frame = MaxCursorRun
    /\ Len(consumer.frames) = MaxCursorRun
    /\ broad_state(consumer.frames[1].state) = "GenericInactionable"
    /\ consumer.frames[1].position.x = MaxCursorRun

=============================================================================
